---- MODULE Spec2Model ----
(***************************************************************************)
(* A model of slogassert: a slog.Handler that records log events into the  *)
(* buffer of the root of a handler derivation tree, and the assertion API  *)
(* (Assert, AssertSomeMessage, AssertMessage, AssertPrecise,               *)
(* AssertSomePrecise, AssertEmpty, Fail, Unasserted, Reset) that consumes  *)
(* them.                                                                   *)
(*                                                                         *)
(* Go strings that the code takes apart (group names, attribute keys,      *)
(* flattened keys) are sequences of one-character strings.  Go reference   *)
(* types are modelled as references into a heap: *groupedAttrs values live *)
(* in `nodes`, map[string]slog.Value values live in `maps`.  A map is named *)
(* by where it was made: the map of the LogMessage that the n-th call of   *)
(* Handle built by n, the map of the i-th element of the slice Unasserted  *)
(* returned by -i.  A map that neither a buffered message nor the test's   *)
(* slice refers to is garbage and leaves the heap.                         *)
(***************************************************************************)
EXTENDS Integers, Sequences, FiniteSets, TLC

VARIABLES
  handlers,     \* every *Handler built so far; handlers[1] is the one New returned
  nodes,        \* heap of groupedAttrs structs, addressed by index
  maps,         \* heap of LogMessage.Attrs maps, by name
  msgs,         \* the slice the latest Unasserted call returned to the test
  testState,    \* where the test goroutine is: running, returning, panicking, ...
  panicVal,     \* the value the test panicked with (Nil when it did not)
  fatals,       \* the calls made to Tester.Fatalf, in order
  stderr,       \* what LogMessage.Print wrote to os.Stderr, in order
  clock,        \* number of Handle calls so far; the next record's Time
  nUnasserted,  \* number of Unasserted calls so far
  decl,         \* history: per handler, the (group path, attr) pairs declared on its chain
  streak,       \* history: the run of consecutive AssertSomeMessage calls with one message
  sink,         \* what the wrapped handler was handed, in order
  pc,           \* where each goroutine is in the call it is making
  mutex,        \* the goroutine holding the root's mutex, or free
  local,        \* the call each goroutine is making and its local variables
  conc,         \* history: the calls made by the goroutines
  defaultLogger, \* slog's default logger: the handler it writes to, or the one before
  cleanup,      \* the function NewDefault registered with t.Cleanup
  nulls,        \* the handlers of the loggers made from NullLogger()
  evals,        \* history: the events on which the latest Assert evaluated the criterion
  lastOp        \* history: the latest operation, its arguments, result and pre-state

vars == <<handlers, nodes, maps, msgs, testState, panicVal, fatals, stderr,
          clock, nUnasserted, decl, streak, lastOp, sink, pc, mutex, local, conc, defaultLogger, cleanup, nulls, evals>>

----------------------------------------------------------------------------
(* Bounds of the model                                                     *)

MaxHandlers == 3
MaxDeriveRecords == 1
MaxAssertHandlers == 2
MaxRecords == 3
MaxUnasserted == 2
MaxUnassertedRecords == 2
MaxMatchRecords == 1
MaxEncInput == 4
MaxConcCalls == 3
MaxTreeHandlers == 4

----------------------------------------------------------------------------
(* Values                                                                  *)

Nil == "nil"
EmptyMap == [x \in {} |-> Nil]

MapPut(m, k, v) == [x \in (DOMAIN m) \cup {k} |-> IF x = k THEN v ELSE m[x]]
MapDelete(m, k) == [x \in (DOMAIN m) \ {k} |-> m[x]]

\* slog.Level values, and the sentinel of the matchers
LevelDebug == -4
LevelInfo == 0
LevelWarn == 4
LevelError == 8
LevelDontCare == -255000000

\* slog.Value: a kind and its payload
StringValue(s) == [kind |-> "String", v |-> s]
GroupValue(as) == [kind |-> "Group", v |-> as]
\* a value of KindLogValuer whose LogValue() returns val
LogValuerValue(val) == [kind |-> "LogValuer", v |-> val]
Attr(key, value) == [Key |-> key, Value |-> value]

\* slog.Value.Resolve: call LogValue until the result is no LogValuer
RECURSIVE Resolve(_)
Resolve(val) == IF val.kind = "LogValuer" THEN Resolve(val.v) ELSE val

----------------------------------------------------------------------------
(* The flattened key                                                       *)

RECURSIVE ReplaceAll(_, _, _)
ReplaceAll(s, old, new) ==
  IF s = <<>> THEN <<>>
  ELSE (IF Head(s) = old THEN new ELSE <<Head(s)>>) \o ReplaceAll(Tail(s), old, new)

\* an encoding that escapes the dots and leaves the backslashes alone
dotEncode_dotsOnly(s) == ReplaceAll(s, ".", <<"\\", ".">>)

dotEncode(s) == ReplaceAll(ReplaceAll(s, "\\", <<"\\", "\\">>), ".", <<"\\", ".">>)

RECURSIVE Join(_, _)
Join(elems, sep) ==
  IF elems = <<>> THEN <<>>
  ELSE IF Len(elems) = 1 THEN elems[1]
  ELSE elems[1] \o <<sep>> \o Join(Tail(elems), sep)

encgroups(group, key) ==
  LET converted == [i \in 1..(Len(group) + 1) |->
                      IF i <= Len(group) THEN dotEncode(group[i]) ELSE dotEncode(key)]
  IN Join(converted, ".")

----------------------------------------------------------------------------
(* groupedAttrs                                                            *)

NewGroupedAttrs == [attrs |-> <<>>, groups |-> EmptyMap]

\* a set that ignores the group path
setAtReceiver(heap, target, groupkeys, attr) == [heap EXCEPT ![target].attrs = @ \o attr]

\* ga.set(groupkeys, attr...): the heap afterwards
RECURSIVE set(_, _, _, _), set_inFront(_, _, _, _)
\* a set that puts the new attributes before the ones the node has
set_inFront(heap, target, groupkeys, attr) ==
  IF groupkeys = <<>>
  THEN [heap EXCEPT ![target].attrs = attr \o @]
  ELSE LET group == Head(groupkeys) IN
       IF group \in DOMAIN heap[target].groups
       THEN set_inFront(heap, heap[target].groups[group], Tail(groupkeys), attr)
       ELSE LET newTarget == Len(heap) + 1
                linked == [heap EXCEPT ![target].groups = MapPut(@, group, newTarget)]
            IN set_inFront(Append(linked, NewGroupedAttrs), newTarget, Tail(groupkeys), attr)
\* a set that puts the attributes in a group of its own under the receiver
set_deeper(heap, target, groupkeys, attr) ==
  Append([heap EXCEPT ![target].groups = MapPut(@, <<"x">>, Len(heap) + 1)],
         [attrs |-> attr, groups |-> EmptyMap])
set(heap, target, groupkeys, attr) ==
  IF groupkeys = <<>>
  THEN [heap EXCEPT ![target].attrs = @ \o attr]
  ELSE LET group == Head(groupkeys) IN
       IF group \in DOMAIN heap[target].groups
       THEN set(heap, heap[target].groups[group], Tail(groupkeys), attr)
       ELSE LET newTarget == Len(heap) + 1
                linked == [heap EXCEPT ![target].groups = MapPut(@, group, newTarget)]
            IN set(Append(linked, NewGroupedAttrs), newTarget, Tail(groupkeys), attr)

\* a clone that hands back the receiver itself
cloneAliased(heap, ga) == [heap |-> heap, id |-> ga]

\* ga.clone(): the heap afterwards and the address of the copy
RECURSIVE clone(_, _), cloneGroups(_, _, _, _)
clone(heap, ga) ==
  LET new == Len(heap) + 1
  IN cloneGroups(Append(heap, [attrs |-> heap[ga].attrs, groups |-> EmptyMap]),
                 new, ga, DOMAIN heap[ga].groups)
cloneGroups(heap, new, ga, todo) ==
  IF todo = {} THEN [heap |-> heap, id |-> new]
  ELSE LET group == CHOOSE g \in todo : TRUE
           c == clone(heap, heap[ga].groups[group])
       IN cloneGroups([c.heap EXCEPT ![new].groups = MapPut(@, group, c.id)],
                      new, ga, todo \ {group})

\* the closure f of Handle, applied to one attribute: the attribute map afterwards
RECURSIVE f(_, _, _), fEach(_, _, _)
\* a closure that looks at the kind of the value before resolving it
fUnresolved(m, group, attr) ==
  IF attr.Value.kind = "Group"
  THEN fEach(m, group \o <<attr.Key>>, attr.Value.v)
  ELSE MapPut(m, encgroups(group, attr.Key), attr.Value)
\* a closure that stores a group as it stores any other value
f_storesGroups(m, group, attr) ==
  MapPut(m, encgroups(group, attr.Key), Resolve(attr.Value))
f(m, group, attr) ==
  LET val == Resolve(attr.Value) IN
  IF val.kind = "Group"
  THEN fEach(m, group \o <<attr.Key>>, val.v)
  ELSE MapPut(m, encgroups(group, attr.Key), val)
fEach(m, group, attrs) ==
  IF attrs = <<>> THEN m ELSE fEach(f(m, group, Head(attrs)), group, Tail(attrs))

\* ga.runOnRecursive(currGroup, f): own attributes first, then every child group
RECURSIVE runOnRecursive(_, _, _, _), runOnGroups(_, _, _, _, _)
runOnRecursive(heap, ga, currGroup, m) ==
  runOnGroups(heap, ga, currGroup, fEach(m, currGroup, heap[ga].attrs),
              DOMAIN heap[ga].groups)
runOnGroups(heap, ga, currGroup, m, todo) ==
  IF todo = {} THEN m
  ELSE LET group == CHOOSE g \in todo : TRUE
       IN runOnGroups(heap, ga, currGroup,
                      runOnRecursive(heap, heap[ga].groups[group],
                                     currGroup \o <<group>>, m),
                      todo \ {group})

runOn(heap, ga, m) == runOnRecursive(heap, ga, <<>>, m)

\* the calls of f that ga.runOnRecursive(currGroup, f) makes, in order, f
\* returning true: each with the group and the attribute it is handed
RECURSIVE runOnCalls(_, _, _), runOnGroupsCalls(_, _, _, _)
runOnCalls(heap, ga, currGroup) ==
  [i \in 1..Len(heap[ga].attrs) |-> [group |-> currGroup, attr |-> heap[ga].attrs[i]]]
    \o runOnGroupsCalls(heap, ga, currGroup, DOMAIN heap[ga].groups)
runOnGroupsCalls(heap, ga, currGroup, todo) ==
  IF todo = {} THEN <<>>
  ELSE LET group == CHOOSE g \in todo : TRUE
       IN runOnCalls(heap, heap[ga].groups[group], currGroup \o <<group>>)
            \o runOnGroupsCalls(heap, ga, currGroup, todo \ {group})

----------------------------------------------------------------------------
(* Inputs                                                                  *)

Messages == {"test warning", "test2"}
GroupNames == {<<"g">>}

\* the attribute lists handed to WithAttrs
WithAttrLists ==
  { <<Attr(<<"t">>, StringValue("v1"))>>,
    <<Attr(<<"u", ".">>, StringValue("v2")),
      Attr(<<"t">>, StringValue("v3")),
      Attr(<<"g">>, GroupValue(<<Attr(<<"t">>, LogValuerValue(StringValue("v4")))>>))>> }

\* the attribute lists of the records handed to Handle
RecordAttrLists ==
  { <<>>,
    <<Attr(<<"t">>, StringValue("v5"))>>,
    <<Attr(<<"k">>, LogValuerValue(GroupValue(<<Attr(<<"a">>, StringValue("a")),
                                                Attr(<<"\\">>, StringValue("b"))>>)))>> }

\* the records handed to Handle while the derivation tree is explored
DeriveRecords ==
  { [Message |-> "test warning", Level |-> LevelError, Time |-> clock + 1, Attrs |-> as] :
      as \in RecordAttrLists }

\* the records handed to Handle while the assertions are explored
AssertRecords ==
  { [Message |-> "test warning", Level |-> LevelWarn, Time |-> clock + 1, Attrs |-> <<>>],
    [Message |-> "test warning", Level |-> LevelError, Time |-> clock + 1,
     Attrs |-> <<Attr(<<"k", "e", "y">>, StringValue("val"))>>],
    [Message |-> "test2", Level |-> LevelWarn, Time |-> clock + 1,
     Attrs |-> <<Attr(<<"k", "e", "y">>, StringValue("val"))>>] }

----------------------------------------------------------------------------
(* Handler                                                                 *)

\* the logger that is slog's default before a test installs its own
OrigLogger == 0

\* no function is registered with t.Cleanup
NoCleanup == [registered |-> FALSE, assertEmpty |-> FALSE, handler |-> 0, origLogger |-> OrigLogger]

\* the goroutines that use the handlers: the one of the test and one it started
Goroutines == {"test", "worker"}

\* the locals of a goroutine that is in no call, and the history of no calls
NoCall == [op |-> "none", h |-> 0, msg |-> "", id |-> 0, count |-> 0, exits |-> FALSE,
           attrs |-> <<>>, lm |-> EmptyMap, fcalls |-> <<>>,
           scanned |-> <<>>, newMessages |-> <<>>]
NoAccess == [by |-> "none", of |-> 0, held |-> TRUE]
NoCalls ==
  [calls |-> 0, acquired |-> <<>>, caller |-> <<>>, completed |-> 0, counted |-> 0,
   removed |-> {}, discarded |-> {}, access |-> NoAccess]

\* what a history variable holds while there is nothing to remember
NoOp == [op |-> "none", h |-> 0, arg |-> Nil, ret |-> Nil, fatal |-> FALSE,
         pre |-> <<>>, panicking |-> FALSE, dump |-> <<>>]
NoStreak == [msg |-> Nil, n |-> 0, k |-> 0, removed |-> 0]

\* a wrapped slog.Handler is known by the calls of WithGroup and WithAttrs
\* that made it from the handler New was given; NoWrapped is the nil handler
NoWrapped == [set |-> FALSE, goas |-> <<>>]
Wrapped(goas) == [set |-> TRUE, goas |-> goas]

\* New(&HandlerOptions{T: t, Leveler: leveler, Wrapped: wrapped,
\* DetectDupes: detectDupes})
NewWithOptions(leveler, wrapped, detectDupes) ==
  /\ handlers = << [parent |-> 0, currentGroup |-> <<>>, attrs |-> 1,
                    leveler |-> leveler, wrapped |-> wrapped,
                    detectDupes |-> detectDupes, logMessages |-> <<>>] >>
  /\ nodes = << NewGroupedAttrs >>
  /\ maps = EmptyMap
  /\ msgs = <<>>
  /\ testState = "running"
  /\ panicVal = Nil
  /\ fatals = <<>>
  /\ stderr = <<>>
  /\ clock = 0
  /\ nUnasserted = 0
  /\ decl = << <<>> >>
  /\ streak = NoStreak
  /\ sink = <<>>
  /\ pc = [g \in Goroutines |-> "idle"]
  /\ mutex = "free"
  /\ local = [g \in Goroutines |-> NoCall]
  /\ conc = NoCalls
  /\ defaultLogger = OrigLogger
  /\ cleanup = NoCleanup
  /\ nulls = <<>>
  /\ evals = <<>>
  /\ lastOp = NoOp

\* New(t, leveler, wrapped)
New(leveler, wrapped) == NewWithOptions(leveler, wrapped, FALSE)

\* New(t, slog.LevelWarn, nil)
Init == New(LevelWarn, NoWrapped)

\* a root that stops at the parent
rootOneStep(h) == IF handlers[h].parent = 0 THEN h ELSE handlers[h].parent

\* h.root()
RECURSIVE root(_)
root(h) == IF handlers[h].parent = 0 THEN h ELSE root(handlers[h].parent)

\* the events of a slice of LogMessage, each with the contents of its map
Deref(lm) == [lm EXCEPT !.Attrs = maps[lm.Attrs]]
View(logMessages) == [i \in 1..Len(logMessages) |-> Deref(logMessages[i])]
Buffer == handlers[1].logMessages
BufView == View(Buffer)

\* h.child(): the new handler and the heap afterwards
child(h) ==
  LET c == clone(nodes, handlers[h].attrs)
  IN [handler |-> [parent |-> h, currentGroup |-> handlers[h].currentGroup,
                   attrs |-> c.id, leveler |-> handlers[h].leveler,
                   wrapped |-> handlers[h].wrapped,
                   detectDupes |-> handlers[h].detectDupes, logMessages |-> <<>>],
      heap |-> c.heap]

\* the record of an operation of the running test that reports no failure
Step(op, h, arg, ret) ==
  [op |-> op, h |-> h, arg |-> arg, ret |-> ret, fatal |-> FALSE,
   pre |-> BufView, panicking |-> FALSE, dump |-> <<>>]

\* an Enabled that asks for a level above the leveler's
EnabledAbove(h, level) == level > handlers[h].leveler

\* h.Enabled(ctx, level); the Level() of a slog.Level is the level itself
Enabled(h, level) == level >= handlers[h].leveler

\* a derivation that leaves the wrapped handler as child() copied it
WithGroup_wrappedKept(h, name) == handlers[h].wrapped

\* handler.wrapped after WithAttrs and after WithGroup
WithAttrs_wrapped(h, attrs) ==
  IF handlers[h].wrapped.set
  THEN Wrapped(Append(handlers[h].wrapped.goas, [attrs |-> attrs, group |-> <<>>]))
  ELSE handlers[h].wrapped
WithGroup_wrapped(h, name) ==
  IF handlers[h].wrapped.set
  THEN Wrapped(Append(handlers[h].wrapped.goas, [attrs |-> <<>>, group |-> name]))
  ELSE handlers[h].wrapped

\* h.wrapped.Handle(ctx, record): what the wrapped handler has been handed
Forward(h, record) ==
  IF handlers[h].wrapped.set
  THEN Append(sink, [goas |-> handlers[h].wrapped.goas, record |-> record])
  ELSE sink

\* a detection that looks at the attributes of the call only
hasDupes_ownCall(keys, group, attrs) ==
  \E i, j \in 1..Len(attrs) :
     i < j /\ DOMAIN f(EmptyMap, group, attrs[i]) \cap DOMAIN f(EmptyMap, group, attrs[j]) # {}

\* duplicate detection: an attribute to be declared under group has a
\* flattened key that is among keys, or that an earlier attribute of attrs has
RECURSIVE hasDupes(_, _, _)
hasDupes(keys, group, attrs) ==
  IF attrs = <<>> THEN FALSE
  ELSE LET new == DOMAIN f(EmptyMap, group, Head(attrs))
       IN new \cap keys # {} \/ hasDupes(keys \cup new, group, Tail(attrs))

\* WithAttrs of a handler that detects duplicates panics on one, before it
\* has made anything; the test goes on (it called WithAttrs under a recover)
Handler_WithAttrs(h, attrs) ==
  /\ testState = "running"
  /\ IF /\ handlers[h].detectDupes
        /\ hasDupes(DOMAIN runOn(nodes, handlers[h].attrs, EmptyMap),
                    handlers[h].currentGroup, attrs)
     THEN /\ lastOp' = Step("WithAttrs", h, attrs, 0)
          /\ UNCHANGED <<handlers, nodes, decl, pc, mutex, local, conc, defaultLogger, cleanup, nulls, evals>>
     ELSE /\ LET c == child(h) IN
             /\ handlers' = Append(handlers,
                                   [c.handler EXCEPT !.wrapped = WithAttrs_wrapped(h, attrs)])
             /\ nodes' = set(c.heap, c.handler.attrs, handlers[h].currentGroup, attrs)
          /\ decl' = Append(decl, decl[h] \o [i \in 1..Len(attrs) |->
                                    [group |-> handlers[h].currentGroup, attr |-> attrs[i]]])
          /\ lastOp' = Step("WithAttrs", h, attrs, Len(handlers) + 1)
  /\ UNCHANGED <<maps, msgs, testState, panicVal, fatals, stderr, clock,
                 nUnasserted, streak, sink, pc, mutex, local, conc, defaultLogger, cleanup, nulls, evals>>

\* h.WithAttrs(attrs) while the tree of handlers may grow
WithAttrs(h, attrs) == Len(handlers) < MaxHandlers /\ Handler_WithAttrs(h, attrs)

Handler_WithGroup(h, name) ==
  /\ testState = "running"
  /\ LET c == child(h) IN
     /\ handlers' = Append(handlers,
                           [c.handler EXCEPT !.currentGroup =
                                               handlers[h].currentGroup \o <<name>>,
                                             !.wrapped = WithGroup_wrapped(h, name)])
     /\ nodes' = c.heap
  /\ decl' = Append(decl, decl[h])
  /\ lastOp' = Step("WithGroup", h, name, Len(handlers) + 1)
  /\ UNCHANGED <<maps, msgs, testState, panicVal, fatals, stderr, clock,
                 nUnasserted, streak, sink, pc, mutex, local, conc, defaultLogger, cleanup, nulls, evals>>

\* h.WithGroup(name) while the tree of handlers may grow
WithGroup(h, name) == Len(handlers) < MaxHandlers /\ Handler_WithGroup(h, name)

\* the maps that the buffers and the slice ms refer to, and the heap without
\* the others
Reachable(hs, ms) ==
  UNION {{hs[h].logMessages[i].Attrs : i \in 1..Len(hs[h].logMessages)} :
           h \in 1..Len(hs)}
    \cup {ms[i].Attrs : i \in 1..Len(ms)}
Collect(heap, hs, ms) == [id \in Reachable(hs, ms) |-> heap[id]]

\* the LogMessage Handle builds, with the name its map will get
NewLogMessage(record, attrs) ==
  [Message |-> record.Message, Level |-> record.Level, Stacktrace |-> "stack",
   Attrs |-> attrs, Time |-> record.Time]

\* a Handle that starts the record's attributes at no group
Handle_noCurrentGroup(h, record) ==
  /\ testState = "running"
  /\ clock < MaxRecords
  /\ LET perCall == fEach(EmptyMap, <<>>, record.Attrs)
         lmAttrs == runOn(nodes, handlers[h].attrs, perCall)
     IN /\ maps' = MapPut(maps, clock + 1, lmAttrs)
        /\ handlers' = [handlers EXCEPT ![root(h)].logMessages =
                                          Append(@, NewLogMessage(record, clock + 1))]
  /\ sink' = Forward(h, record)
  /\ clock' = clock + 1
  /\ lastOp' = Step("Handle", h, record, Nil)
  /\ streak' = NoStreak
  /\ UNCHANGED <<nodes, msgs, testState, panicVal, fatals, stderr,
                 nUnasserted, decl, pc, mutex, local, conc, defaultLogger, cleanup, nulls, evals>>


\* a Handle that writes the attributes of the call after the inherited ones
Handle_perCallLast(h, record) ==
  /\ testState = "running"
  /\ clock < MaxRecords
  /\ LET inherited == runOn(nodes, handlers[h].attrs, EmptyMap)
         lmAttrs == fEach(inherited, handlers[h].currentGroup, record.Attrs)
     IN /\ maps' = MapPut(maps, clock + 1, lmAttrs)
        /\ handlers' = [handlers EXCEPT ![root(h)].logMessages =
                                          Append(@, NewLogMessage(record, clock + 1))]
  /\ sink' = Forward(h, record)
  /\ clock' = clock + 1
  /\ lastOp' = Step("Handle", h, record, Nil)
  /\ streak' = NoStreak
  /\ UNCHANGED <<nodes, msgs, testState, panicVal, fatals, stderr,
                 nUnasserted, decl, pc, mutex, local, conc, defaultLogger, cleanup, nulls, evals>>

\* what h.wrapped.Handle can return: nil or an error of the wrapped handler;
\* with no wrapped handler Handle returns nil
WrappedError == "wrapped handler error"
wrapped_Handle(h) == IF handlers[h].wrapped.set THEN {Nil, WrappedError} ELSE {Nil}

\* the times of the events of a buffer, which name them
Times(logMessages) == [i \in 1..Len(logMessages) |-> logMessages[i].Time]

\* the call of Handle as the history keeps it: atForward is the buffer of the
\* root at the moment the wrapped handler was called, or when Handle
\* returned if there is none
HandleStep(h, record, ret, atForward) ==
  [op |-> "Handle", h |-> h, arg |-> record, ret |-> ret, fatal |-> FALSE,
   pre |-> BufView, panicking |-> FALSE, dump |-> <<>>, atForward |-> atForward]

\* a Handle that forwards first and records only what the wrapped handler took
Handle_forwardFirst(h, record) ==
  /\ testState = "running"
  /\ clock < MaxRecords
  /\ LET perCall == fEach(EmptyMap, handlers[h].currentGroup, record.Attrs)
         lmAttrs == runOn(nodes, handlers[h].attrs, perCall)
         appended == Append(handlers[root(h)].logMessages,
                            NewLogMessage(record, clock + 1))
     IN /\ maps' = MapPut(maps, clock + 1, lmAttrs)
        /\ \E err \in wrapped_Handle(h) :
              /\ handlers' = IF err = Nil
                             THEN [handlers EXCEPT ![root(h)].logMessages = appended]
                             ELSE handlers
              /\ lastOp' = HandleStep(h, record, err,
                                      Times(handlers[root(h)].logMessages))
  /\ sink' = Forward(h, record)
  /\ clock' = clock + 1
  /\ streak' = NoStreak
  /\ UNCHANGED <<nodes, msgs, testState, panicVal, fatals, stderr,
                 nUnasserted, decl, pc, mutex, local, conc, defaultLogger, cleanup, nulls, evals>>

Handle(h, record) ==
  /\ testState = "running"
  /\ clock < MaxRecords
  /\ LET perCall == fEach(EmptyMap, handlers[h].currentGroup, record.Attrs)
         lmAttrs == runOn(nodes, handlers[h].attrs, perCall)
         appended == Append(handlers[root(h)].logMessages,
                            NewLogMessage(record, clock + 1))
     IN /\ maps' = MapPut(maps, clock + 1, lmAttrs)
        /\ handlers' = [handlers EXCEPT ![root(h)].logMessages = appended]
        /\ \E err \in wrapped_Handle(h) :
              lastOp' = HandleStep(h, record, err, Times(appended))
  /\ sink' = Forward(h, record)
  /\ clock' = clock + 1
  /\ streak' = NoStreak
  /\ UNCHANGED <<nodes, msgs, testState, panicVal, fatals, stderr,
                 nUnasserted, decl, pc, mutex, local, conc, defaultLogger, cleanup, nulls, evals>>

\* the copy of lm whose map is the copy at newAttrs, but sharing the map of lm
LogMessage_cloneShared(lm, newAttrs) ==
  [Message |-> lm.Message, Level |-> lm.Level, Stacktrace |-> lm.Stacktrace,
   Time |-> lm.Time, Attrs |-> lm.Attrs]

\* a copy of lm that leaves the time out
LogMessage_cloneNoTime(lm, newAttrs) ==
  [Message |-> lm.Message, Level |-> lm.Level, Stacktrace |-> lm.Stacktrace,
   Time |-> 0, Attrs |-> newAttrs]

\* lm.clone(), maps.Clone(lm.Attrs) having put the copy of the map at newAttrs
LogMessage_clone(lm, newAttrs) ==
  [Message |-> lm.Message, Level |-> lm.Level, Stacktrace |-> lm.Stacktrace,
   Time |-> lm.Time, Attrs |-> newAttrs]

Unasserted(h) ==
  /\ testState = "running"
  /\ nUnasserted < MaxUnasserted
  /\ LET logMessages == handlers[root(h)].logMessages IN
     /\ msgs' = [i \in 1..Len(logMessages) |-> LogMessage_clone(logMessages[i], -i)]
     /\ maps' = Collect([id \in {-i : i \in 1..Len(logMessages)} |->
                            maps[logMessages[-id].Attrs]] @@ maps,
                         handlers, msgs')
  /\ nUnasserted' = nUnasserted + 1
  /\ lastOp' = Step("Unasserted", h,
                    [again |-> lastOp.op = "Unasserted",
                     prev |-> IF lastOp.op = "Unasserted" THEN lastOp.ret ELSE <<>>],
                    [i \in 1..Len(msgs') |-> [msgs'[i] EXCEPT !.Attrs = maps'[msgs'[i].Attrs]]])
  /\ UNCHANGED <<handlers, nodes, testState, panicVal, fatals, stderr, clock,
                 decl, streak, sink, pc, mutex, local, conc, defaultLogger, cleanup, nulls, evals>>

\* the changes the test makes to element i of the slice Unasserted returned
Changes ==
  {"Message", "Time", "Stacktrace", "Level", "add", "overwrite", "delete"}

ChangeReturned(i, change) ==
  /\ testState = "running"
  /\ lastOp.op = "Unasserted"
  /\ i \in 1..Len(msgs)
  /\ LET attrs == maps[msgs[i].Attrs] IN
     /\ change \in {"overwrite", "delete"} => DOMAIN attrs # {}
     /\ msgs' = CASE change = "Message" -> [msgs EXCEPT ![i].Message = ""]
                  [] change = "Time" -> [msgs EXCEPT ![i].Time = 0]
                  [] change = "Stacktrace" -> [msgs EXCEPT ![i].Stacktrace = ""]
                  [] change = "Level" -> [msgs EXCEPT ![i].Level = LevelDontCare]
                  [] OTHER -> msgs
     /\ maps' = CASE change = "add" ->
                       [maps EXCEPT ![msgs[i].Attrs] =
                                      MapPut(@, <<"n", "e", "w">>, StringValue("new"))]
                  [] change = "overwrite" ->
                       [maps EXCEPT ![msgs[i].Attrs] =
                                      MapPut(@, CHOOSE k \in DOMAIN attrs : TRUE,
                                             StringValue("new"))]
                  [] change = "delete" ->
                       [maps EXCEPT ![msgs[i].Attrs] =
                                      MapDelete(@, CHOOSE k \in DOMAIN attrs : TRUE)]
                  [] OTHER -> maps
  /\ lastOp' = Step("ChangeReturned", 0, <<i, change>>, Nil)
  /\ UNCHANGED <<handlers, nodes, testState, panicVal, fatals, stderr, clock,
                 nUnasserted, decl, streak, sink, pc, mutex, local, conc, defaultLogger, cleanup, nulls, evals>>

\* a Reset that empties the buffer of its receiver
ResetReceiver(h) ==
  /\ testState = "running"
  /\ handlers' = [handlers EXCEPT ![h].logMessages = <<>>]
  /\ maps' = Collect(maps, handlers', msgs)
  /\ lastOp' = Step("Reset", h, Nil, Nil)
  /\ streak' = NoStreak
  /\ UNCHANGED <<nodes, msgs, testState, panicVal, fatals, stderr, clock,
                 nUnasserted, decl, sink, pc, mutex, local, conc, defaultLogger, cleanup, nulls, evals>>

\* h.Reset()
Reset(h) ==
  /\ testState = "running"
  /\ handlers' = [handlers EXCEPT ![root(h)].logMessages = <<>>]
  /\ maps' = Collect(maps, handlers', msgs)
  /\ lastOp' = Step("Reset", h, Nil, Nil)
  /\ streak' = NoStreak
  /\ UNCHANGED <<nodes, msgs, testState, panicVal, fatals, stderr, clock,
                 nUnasserted, decl, sink, pc, mutex, local, conc, defaultLogger, cleanup, nulls, evals>>

----------------------------------------------------------------------------
(* Matching                                                                *)

\* A matcher is its Go type and its value; a matcher of a function type holds
\* the set of arguments on which the function returns true.
Matcher(type, v) == [type |-> type, v |-> v]

errNoMatch == "does not match"
errInvalidType == "invalid type for comparing"

\* A 64-bit number is written base + off, the base being a landmark of the
\* 64-bit ranges and off a small offset, so that numbers next to the ends of
\* the ranges of int64, uint64 and of the integers float64 holds exactly can
\* be told apart.  NaN is the float64 that equals nothing.
Num(base, off) == [base |-> base, off |-> off]

\* int64(match): an int is 64 bits wide or less, nothing changes
Int64OfInt(n) == n

\* uint64(match): a negative int wraps around by 2^64
Uint64OfInt(n) ==
  IF n.base = "0" /\ n.off < 0 THEN Num("2^64", n.off) ELSE n

\* float64(match): rounds to 53 bits of mantissa, ties to even; between
\* 2^53 and 2^54 the floats are the even integers, below 2^63 and 2^64 the
\* nearest float to the integers next to them is the power of two itself
Float64OfInt(n) ==
  CASE n.base = "2^53" /\ n.off = 1 -> Num("2^53", 0)
    [] n.base = "2^53" /\ n.off = 3 -> Num("2^53", 4)
    [] n.base \in {"2^63", "2^64"} /\ n.off \in -3..3 -> Num(n.base, 0)
    [] OTHER -> n

\* == of two float64
Float64Eq(a, b) == a.base # "NaN" /\ a = b

\* slog.Value of the other kinds
AnyValue(type, x) == [kind |-> "Any", v |-> [type |-> type, v |-> x]]
BoolValue(b) == [kind |-> "Bool", v |-> b]
DurationValue(d) == [kind |-> "Duration", v |-> d]
Float64Value(n) == [kind |-> "Float64", v |-> n]
Int64Value(n) == [kind |-> "Int64", v |-> n]
TimeValue(instant, loc) == [kind |-> "Time", v |-> [instant |-> instant, loc |-> loc]]
Uint64Value(n) == [kind |-> "Uint64", v |-> n]

\* Go types whose values == cannot compare, and the function types
Uncomparable == {"[]string", "[]int"}
FuncTypes ==
  {"func(slog.Value) bool", "func(any) bool", "func(bool) bool",
   "func(time.Duration) bool", "func(float64) bool", "func(int64) bool",
   "func(string) bool", "func(time.Time) bool", "func(uint64) bool"}

\* time.Time.Equal: the same instant, whatever the locations; and the == of
\* two time.Time, which looks at the locations too
TimeIdentical(a, b) == a = b
TimeEqual(a, b) == a.instant = b.instant

\* reflect.DeepEqual of two values given with their dynamic types: functions
\* are never deeply equal
DeepEqual(a, b) == a.type = b.type /\ a.type \notin FuncTypes /\ a.v = b.v

\* slog.Value.Equal, and whether it panics: kind any compares the two
\* interface values with ==, which panics on an uncomparable dynamic type
EqualPanics(v, w) ==
  v.kind = "Any" /\ w.kind = "Any" /\ v.v.type = w.v.type /\ v.v.type \in Uncomparable
Equal(v, w) ==
  /\ v.kind = w.kind
  /\ CASE v.kind = "Float64" -> Float64Eq(v.v, w.v)
       [] v.kind = "Time" -> TimeEqual(v.v, w.v)
       [] v.kind = "Any" -> v.v.type = w.v.type /\ v.v.v = w.v.v
       [] OTHER -> v.v = w.v

\* match(val) of a func(slog.Value) bool that returns true on the values of
\* the set accepted
Accepts(accepted, val) ==
  \E a \in accepted : a.kind = val.kind /\ a.v = val.v

\* nil when ok, errNoMatch when not
Decide(ok) == IF ok THEN Nil ELSE errNoMatch

\* matchAttr without its first rule: every matcher goes by the kind
RECURSIVE matchAttrByKind(_, _)
matchAttrByKind(matcher, val) ==
  IF val.kind = "LogValuer" THEN matchAttrByKind(matcher, val.v)
  ELSE IF matcher.type = "func(slog.Value) bool" THEN Decide(Accepts(matcher.v, val))
  ELSE errInvalidType

RECURSIVE matchAttr(_, _)
matchAttr(matcher, val) ==
  IF matcher.type = "LogValuer"
  THEN IF EqualPanics(matcher.v, val) THEN "panic: comparing uncomparable type"
       ELSE Decide(Equal(matcher.v, val))
  ELSE CASE val.kind = "Any" ->
              (CASE matcher.type = "func(slog.Value) bool" -> Decide(Accepts(matcher.v, val))
                 [] matcher.type = "func(any) bool" ->
                      Decide(\E a \in matcher.v : a.type = val.v.type /\ a.v = val.v.v)
                 [] matcher.type \notin {"func(slog.Value) bool", "func(any) bool", "nil"} ->
                      Decide(DeepEqual(matcher, val.v))
                 [] OTHER -> errInvalidType)
         [] val.kind = "Bool" ->
              (CASE matcher.type = "func(slog.Value) bool" -> Decide(Accepts(matcher.v, val))
                 [] matcher.type = "func(bool) bool" -> Decide(val.v \in matcher.v)
                 [] matcher.type = "bool" -> Decide(matcher.v = val.v)
                 [] OTHER -> errInvalidType)
         [] val.kind = "Duration" ->
              (CASE matcher.type = "func(slog.Value) bool" -> Decide(Accepts(matcher.v, val))
                 [] matcher.type = "func(time.Duration) bool" -> Decide(val.v \in matcher.v)
                 [] matcher.type = "time.Duration" -> Decide(matcher.v = val.v)
                 [] OTHER -> errInvalidType)
         [] val.kind = "Float64" ->
              (CASE matcher.type = "func(slog.Value) bool" -> Decide(Accepts(matcher.v, val))
                 [] matcher.type = "func(float64) bool" -> Decide(val.v \in matcher.v)
                 [] matcher.type = "float64" -> Decide(Float64Eq(matcher.v, val.v))
                 [] matcher.type = "int" -> Decide(Float64Eq(Float64OfInt(matcher.v), val.v))
                 [] OTHER -> errInvalidType)
         [] val.kind = "Int64" ->
              (CASE matcher.type = "func(slog.Value) bool" -> Decide(Accepts(matcher.v, val))
                 [] matcher.type = "func(int64) bool" -> Decide(val.v \in matcher.v)
                 [] matcher.type = "int64" -> Decide(matcher.v = val.v)
                 [] matcher.type = "int" -> Decide(Int64OfInt(matcher.v) = val.v)
                 [] OTHER -> errInvalidType)
         [] val.kind = "String" ->
              (CASE matcher.type = "func(slog.Value) bool" -> Decide(Accepts(matcher.v, val))
                 [] matcher.type = "func(string) bool" -> Decide(val.v \in matcher.v)
                 [] matcher.type = "string" -> Decide(matcher.v = val.v)
                 [] OTHER -> errInvalidType)
         [] val.kind = "Time" ->
              (CASE matcher.type = "func(slog.Value) bool" -> Decide(Accepts(matcher.v, val))
                 [] matcher.type = "func(time.Time) bool" -> Decide(val.v \in matcher.v)
                 [] matcher.type = "time.Time" -> Decide(TimeEqual(matcher.v, val.v))
                 [] OTHER -> errInvalidType)
         [] val.kind = "Uint64" ->
              (CASE matcher.type = "func(slog.Value) bool" -> Decide(Accepts(matcher.v, val))
                 [] matcher.type = "func(uint64) bool" -> Decide(val.v \in matcher.v)
                 [] matcher.type = "uint64" -> Decide(matcher.v = val.v)
                 [] matcher.type = "int" -> Decide(Uint64OfInt(matcher.v) = val.v)
                 [] OTHER -> errInvalidType)
         [] val.kind = "LogValuer" -> matchAttr(matcher, val.v)
         [] OTHER -> "panic: unknown kind in slog"

\* a Matches that does not look at AllAttrsMatch
MatchesWithExtras(lmm, lm) ==
  /\ lmm.Message = lm.Message
  /\ lmm.Level = LevelDontCare \/ lmm.Level = lm.Level
  /\ \A key \in DOMAIN lmm.Attrs :
        /\ key \in DOMAIN maps[lm.Attrs]
        /\ matchAttr(lmm.Attrs[key], maps[lm.Attrs][key]) = Nil

\* a Matches that takes every error but errNoMatch for a match
MatchesUnlessNoMatch(lmm, lm) ==
  /\ lmm.Message = lm.Message
  /\ lmm.Level = LevelDontCare \/ lmm.Level = lm.Level
  /\ \A key \in DOMAIN lmm.Attrs :
        /\ key \in DOMAIN maps[lm.Attrs]
        /\ matchAttr(lmm.Attrs[key], maps[lm.Attrs][key]) # errNoMatch
  /\ lmm.AllAttrsMatch =>
        Cardinality(DOMAIN lmm.Attrs) = Cardinality(DOMAIN maps[lm.Attrs])

\* lmm.Matches(lm)
Matches(lmm, lm) ==
  IF lmm.Message # lm.Message THEN FALSE
  ELSE IF lmm.Level # LevelDontCare /\ lmm.Level # lm.Level THEN FALSE
  ELSE IF \E key \in DOMAIN lmm.Attrs :
             \/ key \notin DOMAIN maps[lm.Attrs]
             \/ matchAttr(lmm.Attrs[key], maps[lm.Attrs][key]) # Nil
       THEN FALSE
  ELSE IF lmm.AllAttrsMatch
          /\ Cardinality(DOMAIN lmm.Attrs) # Cardinality(DOMAIN maps[lm.Attrs])
       THEN FALSE
  ELSE TRUE

Key_key == <<"k", "e", "y">>

\* the LogMessageMatch values handed to AssertPrecise and AssertSomePrecise
LogMessageMatches ==
  { [Message |-> "test warning", Level |-> LevelDontCare, Attrs |-> EmptyMap,
     AllAttrsMatch |-> FALSE],
    [Message |-> "test warning", Level |-> LevelError,
     Attrs |-> (Key_key :> Matcher("string", "val")), AllAttrsMatch |-> TRUE],
    [Message |-> "test2", Level |-> LevelWarn,
     Attrs |-> (Key_key :> Matcher("func(string) bool", {"other"})),
     AllAttrsMatch |-> FALSE] }

----------------------------------------------------------------------------
(* Assertions                                                              *)

\* The function literals the assertions hand to Assert: a comparison of the
\* message, or lmm.Matches.
MessageIs(msg) == [kind |-> "message", msg |-> msg]
MatchIs(lmm) == [kind |-> "match", lmm |-> lmm]
Apply(fn, lm) ==
  IF fn.kind = "message" THEN lm.Message = fn.msg ELSE Matches(fn.lmm, lm)

\* a trueOnlyOnce that lets every match through
trueEveryTime(fn, returnedTrue, l) ==
  [result |-> Apply(fn, l), returnedTrue |-> Apply(fn, l), called |-> TRUE]

\* a trueOnlyOnce that calls fn on every event and drops what it returns
\* once it has returned true
trueOnlyOnce_callsOn(fn, returnedTrue, l) ==
  [result |-> ~returnedTrue /\ Apply(fn, l), returnedTrue |-> returnedTrue \/ Apply(fn, l),
   called |-> TRUE]

\* one call of the closure trueOnlyOnce(fn) returns, returnedTrue being its
\* captured variable: the result, the variable afterwards, and whether the
\* call called fn
trueOnlyOnce(fn, returnedTrue, l) ==
  IF returnedTrue
  THEN [result |-> FALSE, returnedTrue |-> TRUE, called |-> FALSE]
  ELSE [result |-> Apply(fn, l), returnedTrue |-> Apply(fn, l), called |-> TRUE]

\* the loop of Assert over the events left to scan; evaluated is the Time of
\* the events on which fn was called, in the order of the calls
RECURSIVE AssertLoop(_, _, _, _, _, _)
AssertLoop(logMessages, fn, once, returnedTrue, newMessages, matchCount) ==
  IF logMessages = <<>>
  THEN [newMessages |-> newMessages, matchCount |-> matchCount, evaluated |-> <<>>]
  ELSE LET lm == Head(logMessages)
           call == IF once THEN trueOnlyOnce(fn, returnedTrue, lm)
                   ELSE [result |-> Apply(fn, lm), returnedTrue |-> returnedTrue,
                         called |-> TRUE]
           rest == IF call.result
                   THEN AssertLoop(Tail(logMessages), fn, once, call.returnedTrue,
                                   newMessages, matchCount + 1)
                   ELSE AssertLoop(Tail(logMessages), fn, once, call.returnedTrue,
                                   Append(newMessages, lm), matchCount)
       IN [rest EXCEPT !.evaluated = IF call.called THEN <<lm.Time>> \o @ ELSE @]

\* an Assert that keeps the events it matched and drops the others
AssertKeepMatched(h, fn, once) ==
  LET r == AssertLoop(handlers[root(h)].logMessages, fn, once, FALSE, <<>>, 0)
  IN [newMessages |-> SelectSeq(handlers[root(h)].logMessages,
                                LAMBDA lm : \A i \in 1..Len(r.newMessages) :
                                               r.newMessages[i] # lm),
      matchCount |-> r.matchCount, evaluated |-> r.evaluated]

\* an Assert that hands back the events it keeps last first
Handler_Assert_lastFirst(h, fn, once) ==
  LET r == AssertLoop(handlers[root(h)].logMessages, fn, once, FALSE, <<>>, 0)
      n == Len(r.newMessages)
  IN [newMessages |-> [i \in 1..n |-> r.newMessages[n + 1 - i]],
      matchCount |-> r.matchCount, evaluated |-> r.evaluated]

\* h.Assert(f), f being fn or trueOnlyOnce(fn): the new buffer of the root and
\* the number of matches
Handler_Assert(h, fn, once) ==
  AssertLoop(handlers[root(h)].logMessages, fn, once, FALSE, <<>>, 0)

\* lm.Print(os.Stderr): message, level, the attributes by key with the kind and
\* the value of each, and the stack trace
LogMessage_Print(lm) ==
  [message |-> lm.Message, level |-> lm.Level,
   attributes |-> {<<key, maps[lm.Attrs][key].kind, maps[lm.Attrs][key].v>> :
                      key \in DOMAIN maps[lm.Attrs]},
   stacktrace |-> lm.Stacktrace]
PrintAll(logMessages) == [i \in 1..Len(logMessages) |-> LogMessage_Print(logMessages[i])]

\* The builtin recover() called in Fail: it returns the value of the panic
\* only while the goroutine is panicking and the function calling it (Fail)
\* is itself the deferred function, and nil otherwise.
recover(directlyDeferred) ==
  IF testState = "panicking" /\ directlyDeferred THEN panicVal ELSE Nil

\* What a call leaves behind outside the heaps
Outcome(err, out, state, val) ==
  [stderr |-> err, fatals |-> out, testState |-> state, panicVal |-> val]
NoOutcome == Outcome(stderr, fatals, testState, panicVal)

\* t.Fatalf of *testing.T: the failure is reported and the goroutine of the
\* test exits (runtime.Goexit), running the deferred calls still pending
Fatalf(err, format, arg) ==
  Outcome(err, Append(fatals, <<format, arg>>), "goexit", panicVal)

\* a Fail that prints the events and returns
Fail_returns(logMessages, directlyDeferred, format, arg) ==
  Outcome(stderr \o PrintAll(logMessages), fatals, testState, panicVal)

\* h.Fail(format, arg), logMessages being h.logMessages
Fail(logMessages, directlyDeferred, format, arg) ==
  LET r == recover(directlyDeferred) IN
  IF r = Nil
  THEN Fatalf(stderr \o PrintAll(logMessages), format, arg)
  ELSE Outcome(stderr, fatals, "panicking", r)

\* the assignments of an outcome
Leave(o) ==
  /\ stderr' = o.stderr
  /\ fatals' = o.fatals
  /\ testState' = o.testState
  /\ panicVal' = o.panicVal

\* the record of an operation that may have failed the test
Asserted(op, h, arg, ret, o) ==
  [op |-> op, h |-> h, arg |-> arg, ret |-> ret,
   fatal |-> Len(o.fatals) > Len(fatals), pre |-> BufView,
   panicking |-> testState = "panicking",
   dump |-> SubSeq(o.stderr, Len(stderr) + 1, Len(o.stderr))]

\* the four assertions: Assert, then Fail when nothing matched
Asserting(op, h, arg, fn, once, format) ==
  /\ testState = "running"
  /\ LET r == Handler_Assert(h, fn, once)
         after == [handlers EXCEPT ![root(h)].logMessages = r.newMessages]
         o == IF r.matchCount = 0
              THEN Fail(after[h].logMessages, FALSE, format, arg)
              ELSE NoOutcome
     IN /\ handlers' = after
        /\ maps' = Collect(maps, after, msgs)
        /\ Leave(o)
        /\ lastOp' = Asserted(op, h, arg, r.matchCount, o)
        /\ evals' = r.evaluated
  /\ UNCHANGED <<nodes, msgs, clock, nUnasserted, decl, sink, pc, mutex, local, conc,
                 defaultLogger, cleanup, nulls>>

Count(logMessages, msg) ==
  Len(SelectSeq(logMessages, LAMBDA lm : lm.Message = msg))

\* an AssertSomeMessage that stops at the first match
AssertSomeMessageOnce(h, msg) ==
  /\ Asserting("AssertSomeMessage", h, msg, MessageIs(msg), TRUE,
               "No logs with message %q found")
  /\ streak' = NoStreak

AssertSomeMessage(h, msg) ==
  /\ Asserting("AssertSomeMessage", h, msg, MessageIs(msg), FALSE,
               "No logs with message %q found")
  /\ streak' = IF streak.msg = msg
               THEN [streak EXCEPT !.n = @ + 1,
                                   !.removed = @ + Len(Buffer) - Len(Buffer')]
               ELSE [msg |-> msg, n |-> 1, k |-> Count(Buffer, msg),
                     removed |-> Len(Buffer) - Len(Buffer')]

AssertMessage(h, msg) ==
  /\ Asserting("AssertMessage", h, msg, MessageIs(msg), TRUE,
               "No logs with message %q found")
  /\ streak' = NoStreak

AssertPrecise(h, lmm) ==
  /\ Asserting("AssertPrecise", h, lmm, MatchIs(lmm), TRUE,
               "No logs matching filter were found")
  /\ streak' = NoStreak

AssertSomePrecise(h, lmm) ==
  /\ Asserting("AssertSomePrecise", h, lmm, MatchIs(lmm), FALSE,
               "No logs matching filter %#v were found")
  /\ streak' = NoStreak

\* an AssertEmpty that tolerates one event
AssertEmptyBody_OffByOne(h) ==
  IF Len(handlers[root(h)].logMessages) <= 1
  THEN NoOutcome
  ELSE Fail(handlers[root(h)].logMessages, FALSE,
            "%d unasserted log message(s); see printout above",
            Len(handlers[root(h)].logMessages))

\* the body of h.AssertEmpty(): Fail is called by AssertEmpty, so it is never
\* itself the deferred function
AssertEmptyBody(h) ==
  IF Len(handlers[root(h)].logMessages) = 0
  THEN NoOutcome
  ELSE Fail(handlers[root(h)].logMessages, FALSE,
            "%d unasserted log message(s); see printout above",
            Len(handlers[root(h)].logMessages))

\* where the test ends once its deferred call has run
Ended(state) ==
  CASE state = "returning" -> "passed"
    [] state = "panicking" -> "panicked"
    [] OTHER -> "failed"

\* h.AssertEmpty() called by the running test
AssertEmpty(h) ==
  /\ testState = "running"
  /\ Leave(AssertEmptyBody(h))
  /\ lastOp' = Asserted("AssertEmpty", h, "called", Nil, AssertEmptyBody(h))
  /\ UNCHANGED <<handlers, nodes, maps, msgs, clock, nUnasserted,
                 decl, streak, sink, pc, mutex, local, conc, defaultLogger, cleanup, nulls, evals>>

\* defer handler.AssertEmpty(), run when the test returns, exits or panics
DeferredAssertEmpty(h) ==
  /\ testState \in {"returning", "goexit", "panicking"}
  /\ Leave([AssertEmptyBody(h) EXCEPT !.testState = Ended(@)])
  /\ lastOp' = Asserted("AssertEmpty", h, "deferred", Nil, AssertEmptyBody(h))
  /\ UNCHANGED <<handlers, nodes, maps, msgs, clock, nUnasserted,
                 decl, streak, sink, pc, mutex, local, conc, defaultLogger, cleanup, nulls, evals>>

\* defer handler.Fail(format), run when the test returns, exits or panics
DeferredFail(h) ==
  /\ testState \in {"returning", "goexit", "panicking"}
  /\ LET o == Fail(handlers[h].logMessages, TRUE, "custom", Nil) IN
     /\ Leave([o EXCEPT !.testState = Ended(@)])
     /\ lastOp' = Asserted("Fail", h, "deferred", Nil, o)
  /\ UNCHANGED <<handlers, nodes, maps, msgs, clock, nUnasserted,
                 decl, streak, sink, pc, mutex, local, conc, defaultLogger, cleanup, nulls, evals>>

\* the body of the test returns
TestReturns ==
  /\ testState = "running"
  /\ testState' = "returning"
  /\ lastOp' = Step("return", 0, Nil, Nil)
  /\ UNCHANGED <<handlers, nodes, maps, msgs, panicVal, fatals, stderr, clock,
                 nUnasserted, decl, streak, sink, pc, mutex, local, conc, defaultLogger, cleanup, nulls, evals>>

\* the code under test panics
TestPanics(v) ==
  /\ testState = "running"
  /\ testState' = "panicking"
  /\ panicVal' = v
  /\ lastOp' = Step("panic", 0, v, Nil)
  /\ UNCHANGED <<handlers, nodes, maps, msgs, fatals, stderr, clock,
                 nUnasserted, decl, streak, sink, pc, mutex, local, conc, defaultLogger, cleanup, nulls, evals>>

NextDerive ==
  \/ \E h \in 1..Len(handlers), attrs \in WithAttrLists : WithAttrs(h, attrs)
  \/ \E h \in 1..Len(handlers), name \in GroupNames : WithGroup(h, name)
  \/ \E h \in 1..Len(handlers), record \in DeriveRecords :
        clock < MaxDeriveRecords /\ Handle(h, record)
  \/ \E h \in 1..Len(handlers) : lastOp.op = "Handle" /\ Unasserted(h)

SpecDerive == Init /\ [][NextDerive]_vars

\* the assertions that consume events
Next ==
  \/ \E h \in 1..Len(handlers), record \in AssertRecords : Handle(h, record)
  \/ \E h \in 1..Len(handlers), msg \in Messages : AssertSomeMessage(h, msg)
  \/ \E h \in 1..Len(handlers), msg \in Messages : AssertMessage(h, msg)
  \/ \E h \in 1..Len(handlers), lmm \in LogMessageMatches : AssertPrecise(h, lmm)
  \/ \E h \in 1..Len(handlers), lmm \in LogMessageMatches : AssertSomePrecise(h, lmm)
  \/ \E h \in 1..Len(handlers) : Reset(h)

Spec == Init /\ [][Next]_vars

\* the end of the test: AssertEmpty and Fail, called and deferred
NextExit ==
  \/ \E h \in 1..Len(handlers), name \in GroupNames :
        Len(handlers) < MaxAssertHandlers /\ WithGroup(h, name)
  \/ \E h \in 1..Len(handlers), record \in AssertRecords : Handle(h, record)
  \/ \E h \in 1..Len(handlers) : AssertSomeMessage(h, "test warning")
  \/ \E h \in 1..Len(handlers) : AssertEmpty(h)
  \/ TestReturns
  \/ TestPanics("boom")
  \/ \E h \in 1..Len(handlers) : DeferredAssertEmpty(h)
  \/ \E h \in 1..Len(handlers) : DeferredFail(h)

SpecExit == Init /\ [][NextExit]_vars

\* Unasserted and what the test does with the slice it returns
NextUnasserted ==
  \/ \E h \in 1..Len(handlers), record \in AssertRecords :
        clock < MaxUnassertedRecords /\ Handle(h, record)
  \/ \E h \in 1..Len(handlers) : Unasserted(h)
  \/ \E i \in 1..Len(msgs), change \in Changes : ChangeReturned(i, change)
  \/ \E h \in 1..Len(handlers) : AssertMessage(h, "test warning")
  \/ \E h \in 1..Len(handlers) : AssertEmpty(h)

SpecUnasserted == Init /\ [][NextUnasserted]_vars

\* Reset on the handlers of a derivation tree
NextReset ==
  \/ \E h \in 1..Len(handlers), name \in GroupNames :
        Len(handlers) < MaxAssertHandlers /\ WithGroup(h, name)
  \/ \E h \in 1..Len(handlers), record \in AssertRecords : Handle(h, record)
  \/ \E h \in 1..Len(handlers) : Reset(h)
  \/ \E h \in 1..Len(handlers) : AssertEmpty(h)

SpecReset == Init /\ [][NextReset]_vars

\* the values an attribute can be stored with, and one that is still lazy
ResolvedValues ==
  << AnyValue("[]string", <<>>), AnyValue("[]string", <<"nope">>),
    AnyValue("error", <<"EOF">>),
    BoolValue(TRUE), BoolValue(FALSE),
    DurationValue(1), DurationValue(60),
    Float64Value(Num("0", 1)), Float64Value(Num("0", 0)),
    Float64Value(Num("2^53", 0)), Float64Value(Num("NaN", 0)),
    Int64Value(Num("0", 1)), Int64Value(Num("0", -1)), Int64Value(Num("2^63", -1)),
    StringValue("hi!"), StringValue(""), StringValue("2"),
    TimeValue(1, "UTC"), TimeValue(1, "Local"), TimeValue(2, "UTC"),
    Uint64Value(Num("0", 1)), Uint64Value(Num("2^64", -1)) >>
MatchValues == ResolvedValues \o <<LogValuerValue(StringValue("hi!"))>>

\* the Go type behind a kind, and the type of the predicates on it
NativeType(val) ==
  CASE val.kind = "Any" -> val.v.type
    [] val.kind = "Bool" -> "bool"
    [] val.kind = "Duration" -> "time.Duration"
    [] val.kind = "Float64" -> "float64"
    [] val.kind = "Int64" -> "int64"
    [] val.kind = "String" -> "string"
    [] val.kind = "Time" -> "time.Time"
    [] val.kind = "Uint64" -> "uint64"
NativeFunc(val) ==
  IF val.kind = "Any" THEN "func(any) bool"
  ELSE "func(" \o NativeType(val) \o ") bool"

\* the matchers: for every value the two predicates that accept it alone and
\* the literal equal to it, then ints, a nil, a slice of int, and values that
\* implement LogValuer
IntMatchers ==
  << Matcher("int", Num("0", 1)), Matcher("int", Num("0", -1)),
     Matcher("int", Num("2^53", 1)), Matcher("int", Num("2^63", -1)) >>
LogValuerMatchers ==
  << Matcher("LogValuer", StringValue("2")), Matcher("LogValuer", Int64Value(Num("0", 1))),
    Matcher("LogValuer", TimeValue(1, "Local")),
    Matcher("LogValuer", AnyValue("[]string", <<>>)),
    Matcher("LogValuer", AnyValue("error", <<"EOF">>)) >>
ValuePredicate(val) == Matcher("func(slog.Value) bool", {val})
NativePredicate(val) == Matcher(NativeFunc(val), {val.v})
Literal(val) == Matcher(NativeType(val), IF val.kind = "Any" THEN val.v.v ELSE val.v)
MatchMatchers ==
  [i \in 1..Len(ResolvedValues) |-> ValuePredicate(ResolvedValues[i])]
    \o [i \in 1..Len(ResolvedValues) |-> NativePredicate(ResolvedValues[i])]
    \o [i \in 1..Len(ResolvedValues) |-> Literal(ResolvedValues[i])]
    \o IntMatchers \o LogValuerMatchers
    \o << Matcher("nil", Nil), Matcher("[]int", <<>>) >>

\* the records and the LogMessageMatch values of the calls of Matches
Key_n == <<"n">>
MatchRecords ==
  { [Message |-> m, Level |-> LevelWarn, Time |-> clock + 1, Attrs |-> as] :
      m \in {"", "test warning"},
      as \in { <<>>,
               <<Attr(<<"k", "e", "y">>, StringValue("val"))>>,
               <<Attr(<<"k", "e", "y">>, StringValue("val")),
                 Attr(<<"n">>, Int64Value(Num("0", 1)))>> } }
    \cup { [Message |-> "test warning", Level |-> LevelError, Time |-> clock + 1,
            Attrs |-> <<>>] }
MatchAttrs ==
  << EmptyMap,
    Key_key :> Matcher("string", "val"),
    Key_key :> Matcher("func(string) bool", {"other"}),
    (Key_key :> Matcher("string", "val")) @@ (Key_n :> Matcher("int", Num("0", 1))),
    Key_n :> Matcher("int64", Num("0", 1)),
    Key_key :> Matcher("[]int", <<>>),
    (Key_key :> Matcher("string", "val")) @@ (Key_n :> Matcher("string", "1")) >>
MatchInput(m, l, i, all) ==
  [Message |-> m, Level |-> l, Attrs |-> MatchAttrs[i], AllAttrsMatch |-> all]

\* a test calls matchAttr
Call_matchAttr(matcher, val) ==
  /\ testState = "running"
  /\ lastOp' = Step("matchAttr", 0, [matcher |-> matcher, val |-> val],
                    matchAttr(matcher, val))
  /\ UNCHANGED <<handlers, nodes, maps, msgs, testState, panicVal, fatals, stderr,
                 clock, nUnasserted, decl, streak, sink, pc, mutex, local, conc, defaultLogger, cleanup, nulls, evals>>

\* a test calls lmm.Matches on the i-th buffered message
Call_Matches(lmm, i) ==
  /\ testState = "running"
  /\ i \in 1..Len(Buffer)
  /\ lastOp' = Step("Matches", 0, [lmm |-> lmm, lm |-> Deref(Buffer[i])],
                    Matches(lmm, Buffer[i]))
  /\ UNCHANGED <<handlers, nodes, maps, msgs, testState, panicVal, fatals, stderr,
                 clock, nUnasserted, decl, streak, sink, pc, mutex, local, conc, defaultLogger, cleanup, nulls, evals>>

\* matchers and messages: a test that calls matchAttr once, and tests that
\* log and then call Matches or AssertPrecise once
NextMatch ==
  \/ \E i \in 1..Len(MatchMatchers), j \in 1..Len(MatchValues) :
        lastOp.op = "none" /\ Call_matchAttr(MatchMatchers[i], MatchValues[j])
  \/ \E record \in MatchRecords :
        /\ clock < MaxMatchRecords /\ lastOp.op \in {"none", "Handle"}
        /\ Handle(1, record)
  \/ \E m \in {"", "test warning"}, l \in {LevelDontCare, LevelWarn},
        a \in 1..Len(MatchAttrs), all \in BOOLEAN, i \in 1..Len(Buffer) :
        lastOp.op = "Handle" /\ Call_Matches(MatchInput(m, l, a, all), i)
  \/ \E m \in {"", "test warning"}, l \in {LevelDontCare, LevelWarn},
        a \in 1..Len(MatchAttrs), all \in BOOLEAN :
        lastOp.op = "Handle" /\ AssertPrecise(1, MatchInput(m, l, a, all))

SpecMatch == Init /\ [][NextMatch]_vars


----------------------------------------------------------------------------
(* The flattened key, called on its own                                    *)

\* strings.Split on a one-character separator
RECURSIVE Split(_, _)
Split(s, sep) ==
  IF s = <<>> THEN << <<>> >>
  ELSE LET rest == Split(Tail(s), sep)
       IN IF Head(s) = sep THEN << <<>> >> \o rest
          ELSE << <<Head(s)>> \o rest[1] >> \o Tail(rest)

\* the characters of group names and keys: an ordinary one, the separator of
\* the encoding and its escape character
Chars == {"a", ".", "\\"}

\* every (group, key) whose group names and characters number MaxEncInput at
\* most: the lines of at most MaxEncInput characters over Chars and "/",
\* cut at each "/", the last piece being the key
EncInputs ==
  { LET segs == Split(line, "/")
    IN [group |-> SubSeq(segs, 1, Len(segs) - 1), key |-> segs[Len(segs)]] :
    line \in UNION {[1..n -> Chars \cup {"/"}] : n \in 0..MaxEncInput} }

\* what encgroups returns for every input
EncTable == [x \in EncInputs |-> encgroups(x.group, x.key)]

\* a test calls encgroups
Call_encgroups(group, key) ==
  /\ testState = "running"
  /\ lastOp' = Step("encgroups", 0, [group |-> group, key |-> key],
                    encgroups(group, key))
  /\ UNCHANGED <<handlers, nodes, maps, msgs, testState, panicVal, fatals, stderr,
                 clock, nUnasserted, decl, streak, sink, pc, mutex, local, conc, defaultLogger, cleanup, nulls, evals>>

NextEncode ==
  \E x \in EncInputs : lastOp.op = "none" /\ Call_encgroups(x.group, x.key)

SpecEncode == Init /\ [][NextEncode]_vars

----------------------------------------------------------------------------
(* Handlers in groups and records with grouped attributes                  *)

Key_url == <<"u", "r", "l">>
Key_a_b == <<"a", ".", "b">>
Name_request == <<"r", "e", "q", "u", "e", "s", "t">>

\* the names handed to WithGroup and the attributes handed to WithAttrs
KeyGroupNames == {Name_request, <<".", "\\">>}
KeyWithAttrs == <<Attr(Key_url, StringValue("u0"))>>

\* a LogValuer whose LogValue() is a group of two strings
TwoStrings ==
  LogValuerValue(GroupValue(<<Attr(<<"a">>, StringValue("a")),
                              Attr(<<"\\">>, StringValue("b"))>>))

\* the attribute lists of the records
KeyAttrLists ==
  << <<>>,
     <<Attr(Key_url, StringValue("u1"))>>,
     <<Attr(Key_a_b, StringValue("v"))>>,
     <<Attr(Key_url, StringValue("u1")), Attr(Key_url, StringValue("u2"))>>,
     <<Attr(Name_request, GroupValue(<<Attr(Key_url, StringValue("u3"))>>))>>,
     <<Attr(<<"k">>, TwoStrings)>>,
     <<Attr(Name_request, GroupValue(<<Attr(<<"k">>, TwoStrings),
                                       Attr(Key_url, StringValue("u4"))>>))>>,
     <<Attr(<<>>, GroupValue(<<Attr(Key_url, LogValuerValue(StringValue("u5")))>>))>>,
     <<Attr(<<"k">>, GroupValue(<<>>)), Attr(<<"\\", ".">>, StringValue("w"))>> >>

KeyRecord(i) ==
  [Message |-> "test warning", Level |-> LevelWarn, Time |-> clock + 1,
   Attrs |-> KeyAttrLists[i]]

NextKeys ==
  \/ \E h \in 1..Len(handlers), name \in KeyGroupNames : WithGroup(h, name)
  \/ \E h \in 1..Len(handlers) : WithAttrs(h, KeyWithAttrs)
  \/ \E h \in 1..Len(handlers), i \in 1..Len(KeyAttrLists) :
        clock < MaxDeriveRecords /\ Handle(h, KeyRecord(i))

SpecKeys == Init /\ [][NextKeys]_vars

----------------------------------------------------------------------------
(* Loggers and levels                                                      *)

\* the levels of the handlers and of the events: the four that slog names,
\* and the ones next to Warn
Levels == {LevelDebug, LevelInfo, LevelWarn - 1, LevelWarn, LevelWarn + 1, LevelError}

LevelRecord(level) ==
  [Message |-> "test warning", Level |-> level, Time |-> clock + 1, Attrs |-> <<>>]

\* a test calls h.Enabled
Call_Enabled(h, level) ==
  /\ testState = "running"
  /\ lastOp' = Step("Enabled", h, level, Enabled(h, level))
  /\ UNCHANGED <<handlers, nodes, maps, msgs, testState, panicVal, fatals, stderr,
                 clock, nUnasserted, decl, streak, sink, pc, mutex, local, conc, defaultLogger, cleanup, nulls, evals>>

\* slog.New(h).Log(ctx, level, msg): the Logger asks its handler whether the
\* level is enabled and hands the record to Handle only when it is
Logger_log(h, level) ==
  IF Enabled(h, level)
  THEN Handle(h, LevelRecord(level))
  ELSE /\ testState = "running"
       /\ lastOp' = Step("Log", h, level, Nil)
       /\ UNCHANGED <<handlers, nodes, maps, msgs, testState, panicVal, fatals,
                      stderr, clock, nUnasserted, decl, streak, sink, pc, mutex, local, conc, defaultLogger, cleanup, nulls, evals>>

InitLevel == \E leveler \in Levels : New(leveler, NoWrapped)

NextLevel ==
  \/ \E h \in 1..Len(handlers), name \in GroupNames : WithGroup(h, name)
  \/ \E h \in 1..Len(handlers), level \in Levels :
        lastOp.op # "Enabled" /\ Call_Enabled(h, level)
  \/ \E h \in 1..Len(handlers), level \in Levels :
        (Enabled(h, level) => clock < MaxDeriveRecords) /\ Logger_log(h, level)

SpecLevel == InitLevel /\ [][NextLevel]_vars

\* the levels around the one that LevelDontCare names, and Warn
SentinelLevels == {LevelDontCare, LevelDontCare + 1, LevelWarn}

InitSentinel == \E leveler \in SentinelLevels : New(leveler, NoWrapped)

\* records at those levels reach Handle through a Logger, which asks Enabled
\* first, or by a call of Handle itself, which does not
NextSentinel ==
  \/ \E h \in 1..Len(handlers), name \in GroupNames : WithGroup(h, name)
  \/ \E h \in 1..Len(handlers), level \in SentinelLevels :
        clock < MaxRecords /\ Handle(h, LevelRecord(level))
  \/ \E h \in 1..Len(handlers), level \in SentinelLevels :
        (Enabled(h, level) => clock < MaxRecords) /\ Logger_log(h, level)

SpecSentinel == InitSentinel /\ [][NextSentinel]_vars

----------------------------------------------------------------------------
(* Derivations alone                                                       *)

NextTree ==
  \/ \E h \in 1..Len(handlers), attrs \in WithAttrLists :
        Len(handlers) < MaxTreeHandlers /\ Handler_WithAttrs(h, attrs)
  \/ \E h \in 1..Len(handlers), name \in GroupNames :
        Len(handlers) < MaxTreeHandlers /\ Handler_WithGroup(h, name)

SpecTree == Init /\ [][NextTree]_vars

----------------------------------------------------------------------------
(* The null handler                                                        *)

\* nullHandler{}: a struct with no fields
nullHandler == [type |-> "nullHandler"]

\* a WithAttrs that returns a handler of another type
nullHandler_WithAttrs_other(nh, attrs) == [type |-> "Handler"]

\* an Enabled that lets every level through
nullHandler_Enabled_all(nh, level) == TRUE

nullHandler_Enabled(nh, level) == FALSE
nullHandler_Handle(nh, record) == Nil
nullHandler_WithAttrs(nh, attrs) == nh
nullHandler_WithGroup(nh, name) == nh
NullHandler == nullHandler

\* NullLogger(): slog.New(NullHandler())
NullLogger ==
  /\ nulls = <<>>
  /\ nulls' = <<NullHandler>>
  /\ lastOp' = Step("NullLogger", 0, Nil, 1)
  /\ UNCHANGED <<handlers, nodes, maps, msgs, testState, panicVal, fatals, stderr, clock,
                 nUnasserted, decl, streak, sink, pc, mutex, local, conc, defaultLogger,
                 cleanup, evals>>

\* l.With(attrs...) on the logger of nulls[i]: a logger on what WithAttrs returns
Null_With(i, attrs) ==
  /\ Len(nulls) < MaxHandlers
  /\ nulls' = Append(nulls, nullHandler_WithAttrs(nulls[i], attrs))
  /\ lastOp' = Step("null.WithAttrs", i, attrs, Len(nulls) + 1)
  /\ UNCHANGED <<handlers, nodes, maps, msgs, testState, panicVal, fatals, stderr, clock,
                 nUnasserted, decl, streak, sink, pc, mutex, local, conc, defaultLogger,
                 cleanup, evals>>

\* l.WithGroup(name) on the logger of nulls[i]
Null_WithGroup(i, name) ==
  /\ Len(nulls) < MaxHandlers
  /\ nulls' = Append(nulls, nullHandler_WithGroup(nulls[i], name))
  /\ lastOp' = Step("null.WithGroup", i, name, Len(nulls) + 1)
  /\ UNCHANGED <<handlers, nodes, maps, msgs, testState, panicVal, fatals, stderr, clock,
                 nUnasserted, decl, streak, sink, pc, mutex, local, conc, defaultLogger,
                 cleanup, evals>>

\* nulls[i].Enabled(ctx, level)
Null_Enabled(i, level) ==
  /\ lastOp' = Step("null.Enabled", i, level, nullHandler_Enabled(nulls[i], level))
  /\ UNCHANGED <<handlers, nodes, maps, msgs, testState, panicVal, fatals, stderr, clock,
                 nUnasserted, decl, streak, sink, pc, mutex, local, conc, defaultLogger,
                 cleanup, nulls, evals>>

\* nulls[i].Handle(ctx, record)
Null_Handle(i, record) ==
  /\ lastOp' = Step("null.Handle", i, record, nullHandler_Handle(nulls[i], record))
  /\ UNCHANGED <<handlers, nodes, maps, msgs, testState, panicVal, fatals, stderr, clock,
                 nUnasserted, decl, streak, sink, pc, mutex, local, conc, defaultLogger,
                 cleanup, nulls, evals>>

\* l.Log(ctx, level, msg) on the logger of nulls[i]: Handle is called when
\* Enabled says so, and its error is dropped
Null_Log(i, level) ==
  /\ lastOp' = Step("null.Log", i, level,
                    IF nullHandler_Enabled(nulls[i], level)
                    THEN <<"Handle", nullHandler_Handle(nulls[i], LevelRecord(level))>>
                    ELSE <<>>)
  /\ UNCHANGED <<handlers, nodes, maps, msgs, testState, panicVal, fatals, stderr, clock,
                 nUnasserted, decl, streak, sink, pc, mutex, local, conc, defaultLogger,
                 cleanup, nulls, evals>>

NextNull ==
  \/ NullLogger
  \/ \E i \in 1..Len(nulls), attrs \in WithAttrLists : Null_With(i, attrs)
  \/ \E i \in 1..Len(nulls), name \in GroupNames : Null_WithGroup(i, name)
  \/ \E i \in 1..Len(nulls), level \in Levels : Null_Enabled(i, level)
  \/ \E i \in 1..Len(nulls), record \in AssertRecords \cup {LevelRecord(l) : l \in Levels} :
        Null_Handle(i, record)
  \/ \E i \in 1..Len(nulls), level \in Levels : Null_Log(i, level)

SpecNull == Init /\ [][NextNull]_vars

----------------------------------------------------------------------------
(* NewDefault                                                              *)

\* NewDefault(t, WithLeveler(level), WithAssertEmpty(assertEmpty)) at the
\* start of a test: the handler is made, the default logger is kept for the
\* function given to t.Cleanup, and the handler's logger is made the default
NewDefault(level, assertEmpty) ==
  /\ testState = "running"
  /\ lastOp = NoOp
  /\ ~cleanup.registered
  /\ handlers' = <<[handlers[1] EXCEPT !.leveler = level]>>
  /\ cleanup' = [registered |-> TRUE, assertEmpty |-> assertEmpty, handler |-> 1,
                 origLogger |-> defaultLogger]
  /\ defaultLogger' = 1
  /\ lastOp' = Step("NewDefault", 1, level, Nil)
  /\ UNCHANGED <<nodes, maps, msgs, testState, panicVal, fatals, stderr, clock,
                 nUnasserted, decl, streak, sink, pc, mutex, local, conc, nulls, evals>>

\* slog.Log(ctx, level, msg) of the code under test: the default logger
slog_Log(level) ==
  /\ defaultLogger # OrigLogger
  /\ Logger_log(defaultLogger, level)

\* the function given to t.Cleanup, run when the test has returned, exited or
\* panicked: Fatalf in AssertEmpty ends the function where it is
Cleanup ==
  /\ testState \in {"returning", "goexit", "panicking"}
  /\ cleanup.registered
  /\ LET o == IF cleanup.assertEmpty THEN AssertEmptyBody(cleanup.handler) ELSE NoOutcome
         exited == Len(o.fatals) > Len(fatals)
     IN /\ Leave([o EXCEPT !.testState = Ended(@)])
        /\ defaultLogger' = IF exited THEN defaultLogger ELSE cleanup.origLogger
        /\ lastOp' = Asserted("Cleanup", cleanup.handler, "cleanup", Nil, o)
  /\ cleanup' = NoCleanup
  /\ UNCHANGED <<handlers, nodes, maps, msgs, clock, nUnasserted, decl, streak, sink,
                 pc, mutex, local, conc, nulls, evals>>

NextDefault ==
  \/ \E level \in Levels, assertEmpty \in BOOLEAN : NewDefault(level, assertEmpty)
  \/ \E level \in Levels :
        /\ Enabled(1, level) => clock < MaxUnassertedRecords
        /\ slog_Log(level)
  \/ \E msg \in Messages :
        cleanup.registered /\ AssertMessage(1, msg)
  \/ cleanup.registered /\ TestReturns
  \/ cleanup.registered /\ TestPanics("boom")
  \/ Cleanup

SpecDefault == Init /\ [][NextDefault]_vars

----------------------------------------------------------------------------
(* Goroutines                                                              *)
(* A call is taken in steps: the goroutine enters the method, locks the    *)
(* root's mutex, runs what the method does under the lock, unlocks and     *)
(* returns; an assertion that matched nothing then calls Fail.             *)

ConcOps == {"Handle", "AssertMessage", "AssertSomeMessage", "AssertEmpty",
            "Unasserted", "Reset"}
AssertOps == {"AssertMessage", "AssertSomeMessage"}

\* the record the Logger hands to Handle: its time is taken at the call
ConcRecord(msg, id) == [Message |-> msg, Level |-> LevelWarn, Time |-> id, Attrs |-> <<>>]

\* the Time fields of a slice of LogMessage: they name the Handle calls
Ids(logMessages) == [i \in 1..Len(logMessages) |-> logMessages[i].Time]
IdSet(logMessages) == {logMessages[i].Time : i \in 1..Len(logMessages)}

\* the calls of the closure f of Handle as the history keeps them: where the
\* attribute came from, and whether the goroutine held the mutex of the root
FCalls(calls, from, held) ==
  [i \in 1..Len(calls) |-> [from |-> from, group |-> calls[i].group,
                            key |-> calls[i].attr.Key, held |-> held]]

\* goroutine g enters a method of handler h; Handle builds lm and runs f on
\* the attributes of the record before it asks for the mutex
Go_Enter(g, op, h, msg, attrs) ==
  /\ pc[g] = "idle"
  /\ conc.calls < MaxConcCalls
  /\ pc' = [pc EXCEPT ![g] = "lock"]
  /\ local' = [local EXCEPT ![g] =
                 [op |-> op, h |-> h, msg |-> msg,
                  id |-> IF op = "Handle" THEN clock + 1 ELSE 0,
                  count |-> 0, exits |-> FALSE, attrs |-> attrs,
                  lm |-> fEach(EmptyMap, handlers[h].currentGroup, attrs),
                  fcalls |-> FCalls([i \in 1..Len(attrs) |->
                                       [group |-> handlers[h].currentGroup,
                                        attr |-> attrs[i]]],
                                    "record", mutex = g),
                  scanned |-> <<>>, newMessages |-> <<>>]]
  /\ clock' = IF op = "Handle" THEN clock + 1 ELSE clock
  /\ conc' = [conc EXCEPT !.calls = @ + 1,
                          !.caller = IF op = "Handle" THEN Append(@, g) ELSE @]
  /\ UNCHANGED <<handlers, nodes, maps, msgs, testState, panicVal, fatals, stderr,
                 nUnasserted, decl, streak, lastOp, sink, mutex, defaultLogger, cleanup, nulls, evals>>

\* a call with a record that has no attributes, or of a method that takes none
Go_Call(g, op, h, msg) == Go_Enter(g, op, h, msg, <<>>)

\* the access to the buffer of handler h that goroutine g makes
Access(g, h, held) == [by |-> g, of |-> h, held |-> held]

\* the history of the calls when goroutine g has locked the mutex and has
\* read or written the buffer of the root
Locked(g) ==
  [conc EXCEPT !.access = Access(g, 1, TRUE),
               !.acquired = IF local[g].op = "Handle" THEN Append(@, local[g].id) ELSE @]

\* a Handle that puts its LogMessage in front of the others
Go_Handle_inFront(g) ==
  LET h == local[g].h
      record == ConcRecord(local[g].msg, local[g].id)
  IN /\ maps' = MapPut(maps, local[g].id, runOn(nodes, handlers[h].attrs, EmptyMap))
     /\ handlers' = [handlers EXCEPT ![root(h)].logMessages =
                                       <<NewLogMessage(record, local[g].id)>> \o @]
     /\ conc' = Locked(g)
     /\ UNCHANGED <<msgs, stderr, fatals, testState, local, defaultLogger, cleanup, nulls, evals>>

\* an Assert that leaves in the buffer what it counted
Go_Assert_keeps(g) ==
  /\ pc[g] = "replace"
  /\ pc' = [pc EXCEPT ![g] = "unlock"]
  /\ conc' = [conc EXCEPT !.access = Access(g, 1, mutex = g),
                          !.removed = @ \cup (IdSet(handlers[root(local[g].h)].logMessages)
                                                \ IdSet(local[g].newMessages))]
  /\ UNCHANGED <<handlers, nodes, maps, msgs, testState, panicVal, fatals, stderr,
                 clock, nUnasserted, decl, streak, lastOp, sink, mutex, local,
                 defaultLogger, cleanup, nulls, evals>>

\* a Handle that runs f on the inherited attributes before it locks
Go_Handle_runOnUnlocked(g) ==
  LET h == local[g].h
      record == [ConcRecord(local[g].msg, local[g].id) EXCEPT !.Attrs = local[g].attrs]
  IN /\ local' = [local EXCEPT ![g].fcalls =
                     @ \o FCalls(runOnCalls(nodes, handlers[h].attrs, <<>>),
                                 "handler", mutex = g)]
     /\ maps' = MapPut(maps, local[g].id, runOn(nodes, handlers[h].attrs, local[g].lm))
     /\ handlers' = [handlers EXCEPT ![root(h)].logMessages =
                                       Append(@, NewLogMessage(record, local[g].id))]
     /\ conc' = Locked(g)
     /\ UNCHANGED <<msgs, stderr, fatals, testState, defaultLogger, cleanup, nulls, evals>>

\* Handle between Lock and Unlock: h.attrs.runOn(f) on the inherited
\* attributes, then the append
Go_Handle(g) ==
  LET h == local[g].h
      record == [ConcRecord(local[g].msg, local[g].id) EXCEPT !.Attrs = local[g].attrs]
  IN /\ local' = [local EXCEPT ![g].fcalls =
                     @ \o FCalls(runOnCalls(nodes, handlers[h].attrs, <<>>),
                                 "handler", mutex' = g)]
     /\ maps' = MapPut(maps, local[g].id, runOn(nodes, handlers[h].attrs, local[g].lm))
     /\ handlers' = [handlers EXCEPT ![root(h)].logMessages =
                                       Append(@, NewLogMessage(record, local[g].id))]
     /\ conc' = Locked(g)
     /\ UNCHANGED <<msgs, stderr, fatals, testState, defaultLogger, cleanup, nulls, evals>>

\* Assert after Lock: the loop that calls f on every LogMessage of the
\* buffer, counts the matches and collects the others in newMessages
Go_Scan(g) ==
  LET h == local[g].h
      r == Handler_Assert(h, MessageIs(local[g].msg), local[g].op = "AssertMessage")
  IN /\ local' = [local EXCEPT ![g].count = r.matchCount,
                               ![g].scanned = Ids(handlers[root(h)].logMessages),
                               ![g].newMessages = r.newMessages]
     /\ conc' = Locked(g)
     /\ UNCHANGED <<handlers, maps, msgs, stderr, fatals, testState, defaultLogger,
                    cleanup, nulls, evals>>

\* Assert after its loop: root.logMessages = newMessages
Go_Assert(g) ==
  /\ pc[g] = "replace"
  /\ pc' = [pc EXCEPT ![g] = "unlock"]
  /\ LET h == local[g].h
         after == [handlers EXCEPT ![root(h)].logMessages = local[g].newMessages]
     IN /\ handlers' = after
        /\ maps' = Collect(maps, after, msgs)
        /\ conc' = [conc EXCEPT !.access = Access(g, 1, mutex = g),
                                !.removed = @ \cup (IdSet(handlers[root(h)].logMessages)
                                                      \ IdSet(local[g].newMessages))]
  /\ UNCHANGED <<nodes, msgs, testState, panicVal, fatals, stderr, clock, nUnasserted,
                 decl, streak, lastOp, sink, mutex, local, defaultLogger, cleanup,
                 nulls, evals>>

\* AssertEmpty between Lock and Unlock: Fatalf ends the goroutine, and the
\* deferred Unlock runs as it goes
Go_AssertEmpty(g) ==
  LET h == local[g].h
      o == AssertEmptyBody(h)
  IN /\ stderr' = o.stderr
     /\ fatals' = o.fatals
     /\ testState' = IF g = "test" THEN o.testState ELSE testState
     /\ local' = [local EXCEPT ![g].exits = Len(o.fatals) > Len(fatals)]
     /\ conc' = Locked(g)
     /\ UNCHANGED <<handlers, maps, msgs, defaultLogger, cleanup, nulls, evals>>

\* Unasserted between Lock and Unlock
Go_Unasserted(g) ==
  LET logMessages == handlers[root(local[g].h)].logMessages
  IN /\ msgs' = [i \in 1..Len(logMessages) |-> LogMessage_clone(logMessages[i], -i)]
     /\ maps' = Collect([id \in {-i : i \in 1..Len(logMessages)} |->
                            maps[logMessages[-id].Attrs]] @@ maps,
                         handlers, msgs')
     /\ conc' = Locked(g)
     /\ UNCHANGED <<handlers, stderr, fatals, testState, local, defaultLogger, cleanup, nulls, evals>>

\* Reset between Lock and Unlock
Go_Reset(g) ==
  LET h == local[g].h
  IN /\ handlers' = [handlers EXCEPT ![root(h)].logMessages = <<>>]
     /\ maps' = Collect(maps, handlers', msgs)
     /\ conc' = [Locked(g) EXCEPT
                             !.discarded = @ \cup IdSet(handlers[root(h)].logMessages)]
     /\ UNCHANGED <<msgs, stderr, fatals, testState, local, defaultLogger, cleanup, nulls, evals>>

\* a Lock that does not wait for the mutex to be free
Go_Locked_noWait(g) ==
  /\ pc[g] = "lock"
  /\ mutex' = g
  /\ pc' = [pc EXCEPT ![g] = IF local[g].op \in AssertOps THEN "replace" ELSE "unlock"]
  /\ CASE local[g].op = "Handle" -> Go_Handle(g)
       [] local[g].op \in AssertOps -> Go_Scan(g)
       [] local[g].op = "AssertEmpty" -> Go_AssertEmpty(g)
       [] local[g].op = "Unasserted" -> Go_Unasserted(g)
       [] local[g].op = "Reset" -> Go_Reset(g)
  /\ UNCHANGED <<nodes, panicVal, clock, nUnasserted, decl, streak, lastOp, sink, defaultLogger, cleanup, nulls, evals>>

\* root.m.Lock() and what the method does next while it holds the mutex:
\* all of it up to Unlock, or the loop of Assert
Go_Locked(g) ==
  /\ pc[g] = "lock"
  /\ mutex = "free"
  /\ mutex' = g
  /\ pc' = [pc EXCEPT ![g] = IF local[g].op \in AssertOps THEN "replace" ELSE "unlock"]
  /\ CASE local[g].op = "Handle" -> Go_Handle(g)
       [] local[g].op \in AssertOps -> Go_Scan(g)
       [] local[g].op = "AssertEmpty" -> Go_AssertEmpty(g)
       [] local[g].op = "Unasserted" -> Go_Unasserted(g)
       [] local[g].op = "Reset" -> Go_Reset(g)
  /\ UNCHANGED <<nodes, panicVal, clock, nUnasserted, decl, streak, lastOp, sink, defaultLogger, cleanup, nulls, evals>>

\* an Unlock that is not deferred: a method that Fatalf ended never gets to it
Go_Unlock_notDeferred(g) ==
  /\ pc[g] = "unlock"
  /\ mutex' = IF local[g].exits THEN mutex ELSE "free"
  /\ pc' = [pc EXCEPT ![g] = IF local[g].op \in AssertOps /\ local[g].count = 0
                             THEN "Fail"
                             ELSE IF local[g].exits THEN "exited" ELSE "idle"]
  /\ conc' = [conc EXCEPT !.completed = IF local[g].op = "Handle" THEN @ + 1 ELSE @,
                          !.counted = @ + local[g].count]
  /\ UNCHANGED <<handlers, nodes, maps, msgs, testState, panicVal, fatals, stderr,
                 clock, nUnasserted, decl, streak, lastOp, sink, local, defaultLogger, cleanup, nulls, evals>>

\* root.m.Unlock(), and the return of the method; an assertion that counted
\* no match goes on to Fail
Go_Unlock(g) ==
  /\ pc[g] = "unlock"
  /\ mutex' = "free"
  /\ pc' = [pc EXCEPT ![g] = IF local[g].op \in AssertOps /\ local[g].count = 0
                             THEN "Fail"
                             ELSE IF local[g].exits THEN "exited" ELSE "idle"]
  /\ conc' = [conc EXCEPT !.completed = IF local[g].op = "Handle" THEN @ + 1 ELSE @,
                          !.counted = @ + local[g].count]
  /\ UNCHANGED <<handlers, nodes, maps, msgs, testState, panicVal, fatals, stderr,
                 clock, nUnasserted, decl, streak, lastOp, sink, local, defaultLogger, cleanup, nulls, evals>>

\* what a read of a slice gives while another goroutine may be writing it
TornRead == <<[message |-> "torn read", level |-> 0, attributes |-> {}, stacktrace |-> ""]>>

\* h.Fail(...) after the assertion's Assert has returned: the loop over
\* h.logMessages takes no lock; read while another goroutine is between Lock
\* and Unlock, the slice may be the old one, the new one or neither
Go_Fail(g) ==
  /\ pc[g] = "Fail"
  /\ pc' = [pc EXCEPT ![g] = "exited"]
  /\ \E torn \in (IF mutex # "free" /\ local[g].h = 1 THEN BOOLEAN ELSE {FALSE}) :
       stderr' = stderr \o (IF torn THEN TornRead
                            ELSE PrintAll(handlers[local[g].h].logMessages))
  /\ fatals' = Append(fatals, <<"No logs with message %q found", local[g].msg>>)
  /\ testState' = IF g = "test" THEN "goexit" ELSE testState
  /\ conc' = [conc EXCEPT !.access = Access(g, local[g].h, mutex = g)]
  /\ UNCHANGED <<handlers, nodes, maps, msgs, panicVal, clock, nUnasserted, decl,
                 streak, lastOp, sink, mutex, local, defaultLogger, cleanup, nulls, evals>>

\* the test derives a handler for the goroutine it starts, before any
\* goroutine calls one
Go_WithGroup(h, name) ==
  /\ conc.calls = 0
  /\ Len(handlers) < Cardinality(Goroutines)
  /\ WithGroup(h, name)

NextConc ==
  \/ \E h \in 1..Len(handlers), name \in GroupNames : Go_WithGroup(h, name)
  \/ \E g \in Goroutines, op \in ConcOps, h \in 1..Len(handlers), msg \in Messages :
        /\ op \notin {"Handle"} \cup AssertOps => msg = "test warning"
        /\ Go_Call(g, op, h, msg)
  \/ \E g \in Goroutines : Go_Locked(g)
  \/ \E g \in Goroutines : Go_Assert(g)
  \/ \E g \in Goroutines : Go_Unlock(g)
  \/ \E g \in Goroutines : Go_Fail(g)

SpecConc == Init /\ [][NextConc]_vars

\* the code of the test panics while it is in no call of the handler
Go_Panics(v) ==
  /\ pc["test"] = "idle"
  /\ testState = "running"
  /\ testState' = "panicking"
  /\ panicVal' = v
  /\ UNCHANGED <<handlers, nodes, maps, msgs, fatals, stderr, clock, nUnasserted,
                 decl, streak, lastOp, sink, pc, mutex, local, conc, defaultLogger,
                 cleanup, nulls, evals>>

\* the calls of two goroutines on the root; once the test panics, its
\* goroutine only runs the deferred handler.AssertEmpty()
NextLive ==
  \/ \E g \in Goroutines, op \in ConcOps, msg \in Messages :
        /\ op \notin {"Handle"} \cup AssertOps => msg = "test warning"
        /\ g = "test" =>
              testState = "running" \/ (testState = "panicking" /\ op = "AssertEmpty")
        /\ Go_Call(g, op, 1, msg)
  \/ Go_Panics("boom")
  \/ \E g \in Goroutines : Go_Locked(g)
  \/ \E g \in Goroutines : Go_Assert(g)
  \/ \E g \in Goroutines : Go_Unlock(g)
  \/ \E g \in Goroutines : Go_Fail(g)

\* a goroutine inside a call is scheduled again, and sync.Mutex hands the
\* mutex to a goroutine that keeps waiting for it
Fairness ==
  \A g \in Goroutines :
    /\ SF_vars(Go_Locked(g))
    /\ WF_vars(Go_Assert(g))
    /\ WF_vars(Go_Unlock(g))
    /\ WF_vars(Go_Fail(g))

SpecLive == Init /\ [][NextLive]_vars /\ Fairness

\* the test derives a handler with attributes for the goroutine it starts
Go_WithAttrs(h, attrs) ==
  /\ conc.calls = 0
  /\ Len(handlers) < Cardinality(Goroutines)
  /\ WithAttrs(h, attrs)

\* Handle calls alone, of records with attributes on handlers with attributes
NextFlatten ==
  \/ \E h \in 1..Len(handlers), attrs \in WithAttrLists : Go_WithAttrs(h, attrs)
  \/ \E h \in 1..Len(handlers), name \in GroupNames : Go_WithGroup(h, name)
  \/ \E g \in Goroutines, h \in 1..Len(handlers), attrs \in RecordAttrLists :
        Go_Enter(g, "Handle", h, "test warning", attrs)
  \/ \E g \in Goroutines : Go_Locked(g)
  \/ \E g \in Goroutines : Go_Unlock(g)

SpecFlatten == Init /\ [][NextFlatten]_vars

----------------------------------------------------------------------------
(* Duplicate detection                                                     *)

\* the attribute lists handed to WithAttrs: those of the derivations, and
\* one that holds a key twice
DupeAttrLists ==
  WithAttrLists \cup {<<Attr(<<"t">>, StringValue("a")), Attr(<<"t">>, StringValue("b"))>>,
                     <<Attr(<<"u">>, StringValue("a"))>>}

InitDupes == \E detectDupes \in BOOLEAN : NewWithOptions(LevelWarn, NoWrapped, detectDupes)

NextDupes ==
  \/ \E h \in 1..Len(handlers), attrs \in DupeAttrLists : WithAttrs(h, attrs)
  \/ \E h \in 1..Len(handlers), name \in GroupNames : WithGroup(h, name)
  \/ \E h \in 1..Len(handlers), record \in DeriveRecords :
        clock < MaxDeriveRecords /\ Handle(h, record)

SpecDupes == InitDupes /\ [][NextDupes]_vars

----------------------------------------------------------------------------
(* A wrapped handler                                                       *)

\* New(t, slog.LevelWarn, wrappedHandler), or with no wrapped handler
InitWrapped == \E wrapped \in {NoWrapped, Wrapped(<<>>)} : New(LevelWarn, wrapped)

NextWrapped ==
  \/ \E h \in 1..Len(handlers), attrs \in WithAttrLists : WithAttrs(h, attrs)
  \/ \E h \in 1..Len(handlers), name \in GroupNames : WithGroup(h, name)
  \/ \E h \in 1..Len(handlers), record \in DeriveRecords :
        clock < MaxDeriveRecords /\ Handle(h, record)

SpecWrapped == InitWrapped /\ [][NextWrapped]_vars

----------------------------------------------------------------------------
(* Claims about the derivation tree                                        *)

\* the leaves an attribute declared under a group path contributes, in order
RECURSIVE Leaves(_, _), LeavesEach(_, _)
Leaves(group, attr) ==
  LET val == Resolve(attr.Value) IN
  IF val.kind = "Group"
  THEN LeavesEach(group \o <<attr.Key>>, val.v)
  ELSE << [key |-> encgroups(group, attr.Key), value |-> val] >>
LeavesEach(group, attrs) ==
  IF attrs = <<>> THEN <<>>
  ELSE Leaves(group, Head(attrs)) \o LeavesEach(group, Tail(attrs))

\* the leaves of everything declared on the chain from the root to handler h
RECURSIVE DeclaredLeaves(_)
DeclaredLeaves(ds) ==
  IF ds = <<>> THEN <<>>
  ELSE Leaves(Head(ds).group, Head(ds).attr) \o DeclaredLeaves(Tail(ds))

KeysOf(leaves) == {leaves[i].key : i \in 1..Len(leaves)}
LastEvent == Buffer[Len(Buffer)]
Key_t == <<"t">>
Key_g_t == <<"g", ".", "t">>

\* C1: an event recorded through a handler holds, for every attribute declared
\* by a WithAttrs call on the chain from the root to that handler, an entry
\* keyed by the group path in effect at the declaration; the entry carries the
\* declared value (the latest declaration of a key wins), and the event's keys
\* are exactly those of the chain's declarations and of the call's own attributes.
C1_InheritedAttrs ==
  lastOp.op = "Handle" =>
    LET m == maps[LastEvent.Attrs]
        declared == DeclaredLeaves(decl[lastOp.h])
        perCall == LeavesEach(handlers[lastOp.h].currentGroup, lastOp.arg.Attrs)
    IN /\ \A i \in 1..Len(declared) :
            /\ declared[i].key \in DOMAIN m
            /\ (\A j \in (i + 1)..Len(declared) : declared[j].key # declared[i].key)
                  => m[declared[i].key] = declared[i].value
       /\ DOMAIN m = KeysOf(declared) \cup KeysOf(perCall)

\* With(t).WithGroup(g), then an event with its own attribute t: the inherited
\* attribute is keyed t, the event's own attribute g.t
C1_Witness ==
  /\ lastOp.op = "Handle"
  /\ handlers[lastOp.h].currentGroup = << <<"g">> >>
  /\ decl[lastOp.h] = << [group |-> <<>>, attr |-> Attr(Key_t, StringValue("v1"))] >>
  /\ maps[LastEvent.Attrs] = (Key_t :> StringValue("v1")) @@ (Key_g_t :> StringValue("v5"))

\* the attribute tree at address ga, read through the heap
RECURSIVE TreeOf(_, _)
TreeOf(heap, ga) ==
  [attrs |-> heap[ga].attrs,
   groups |-> [g \in DOMAIN heap[ga].groups |-> TreeOf(heap, heap[ga].groups[g])]]

HandlerView(h) ==
  [parent |-> handlers[h].parent, currentGroup |-> handlers[h].currentGroup,
   attrs |-> TreeOf(nodes, handlers[h].attrs)]

\* C2: no operation, WithAttrs and WithGroup included, changes the parent, the
\* group path or the attribute tree of a handler that exists already; and an
\* event recorded through a handler has no key other than those of its own
\* chain and of the call.
C2_DeriveLeavesReceiver ==
  /\ [][\A h \in 1..Len(handlers) : HandlerView(h)' = HandlerView(h)]_vars
  /\ [](lastOp.op = "Handle" =>
          DOMAIN maps[LastEvent.Attrs] =
            KeysOf(DeclaredLeaves(decl[lastOp.h]))
              \cup KeysOf(LeavesEach(handlers[lastOp.h].currentGroup, lastOp.arg.Attrs)))

\* the root has two derived handlers, one with attributes and one with a group,
\* and an event recorded through the root afterwards has no attribute
C2_Witness ==
  /\ Len(handlers) = 3
  /\ handlers[2].parent = 1 /\ handlers[3].parent = 1
  /\ decl[2] # <<>> /\ handlers[3].currentGroup # <<>>
  /\ lastOp.op = "Handle" /\ lastOp.h = 1 /\ lastOp.arg.Attrs = <<>>
  /\ maps[LastEvent.Attrs] = EmptyMap

\* C3: only the handler New returned has no parent, the buffer of every other
\* handler is empty, Handle through any handler appends its event to the
\* root's buffer, and Unasserted through any handler returns the root's events.
C3_RootBuffer ==
  /\ \A h \in 1..Len(handlers) :
        /\ (handlers[h].parent = 0) = (h = 1)
        /\ h # 1 => handlers[h].logMessages = <<>>
  /\ lastOp.op = "Handle" =>
        /\ Len(BufView) = Len(lastOp.pre) + 1
        /\ SubSeq(BufView, 1, Len(lastOp.pre)) = lastOp.pre
        /\ LastEvent.Message = lastOp.arg.Message
        /\ LastEvent.Level = lastOp.arg.Level
        /\ LastEvent.Time = lastOp.arg.Time
  /\ lastOp.op = "Unasserted" => lastOp.ret = BufView /\ Len(BufView) = clock

\* an event recorded through a handler derived from a derived handler is
\* returned by Unasserted called on the root
C3_Witness ==
  /\ lastOp.op = "Unasserted" /\ lastOp.h = 1
  /\ Len(handlers) = 3 /\ handlers[3].parent = 2
  /\ handlers[3].currentGroup = << <<"g">> >>
  /\ Len(lastOp.ret) = 1
  /\ lastOp.ret[1].Attrs = (Key_t :> StringValue("v1")) @@ (Key_g_t :> StringValue("v5"))

----------------------------------------------------------------------------
(* Claims about the assertions                                             *)

Min(a, b) == IF a <= b THEN a ELSE b
Without(seq, i) == SubSeq(seq, 1, i - 1) \o SubSeq(seq, i + 1, Len(seq))

\* C4: AssertSomeMessage(m) leaves in the buffer exactly the events whose
\* message is not m, in their order; the count of Assert is the number of events
\* removed; the test is failed exactly when that number is zero.
C4_AssertSomeMessage ==
  lastOp.op = "AssertSomeMessage" =>
    /\ BufView = SelectSeq(lastOp.pre, LAMBDA e : e.Message # lastOp.arg)
    /\ \A i \in 1..Len(BufView) : BufView[i].Message # lastOp.arg
    /\ lastOp.ret = Len(lastOp.pre) - Len(BufView)
    /\ lastOp.fatal = (lastOp.ret = 0)
    /\ (testState = "goexit") = (lastOp.ret = 0)

\* two of three events have the message, and the call removes those two
C4_Witness ==
  /\ lastOp.op = "AssertSomeMessage"
  /\ Len(lastOp.pre) = 3
  /\ lastOp.ret = 2
  /\ BufView = << lastOp.pre[2] >>
  /\ ~lastOp.fatal

\* whether the LogMessageMatch accepts an event given with its attributes
ViewMatches(lmm, e) ==
  /\ lmm.Message = e.Message
  /\ lmm.Level = LevelDontCare \/ lmm.Level = e.Level
  /\ \A key \in DOMAIN lmm.Attrs :
        key \in DOMAIN e.Attrs /\ matchAttr(lmm.Attrs[key], e.Attrs[key]) = Nil
  /\ lmm.AllAttrsMatch => Cardinality(DOMAIN lmm.Attrs) = Cardinality(DOMAIN e.Attrs)

\* whether the latest stop-at-first assertion was looking for event e
Sought(e) ==
  IF lastOp.op = "AssertMessage" THEN e.Message = lastOp.arg
  ELSE ViewMatches(lastOp.arg, e)

\* C5: AssertMessage and AssertPrecise on a buffer holding at least one
\* matching event remove the earliest matching event and nothing else, and
\* do not fail the test.
C5_StopAtFirst ==
  (lastOp.op \in {"AssertMessage", "AssertPrecise"}
     /\ \E i \in 1..Len(lastOp.pre) : Sought(lastOp.pre[i])) =>
    LET first == CHOOSE i \in 1..Len(lastOp.pre) :
                   /\ Sought(lastOp.pre[i])
                   /\ \A j \in 1..(i - 1) : ~Sought(lastOp.pre[j])
    IN /\ BufView = Without(lastOp.pre, first)
       /\ lastOp.ret = 1
       /\ ~lastOp.fatal

\* of three events the second and the third match, and the second is removed
C5_Witness ==
  /\ lastOp.op \in {"AssertMessage", "AssertPrecise"}
  /\ Len(lastOp.pre) = 3
  /\ ~Sought(lastOp.pre[1]) /\ Sought(lastOp.pre[2]) /\ Sought(lastOp.pre[3])
  /\ BufView = << lastOp.pre[1], lastOp.pre[3] >>

\* C6, as claimed: n consecutive AssertSomeMessage calls with one message on a
\* buffer holding k events with that message remove min(n, k) events in total.
C6_RemovesMinOfCallsAndEvents ==
  streak.n > 0 => streak.removed = Min(streak.n, streak.k)

\* C6, amended: the first of the calls removes all k events and its count is k;
\* every later call removes nothing, counts zero and fails the test.
C6_RemovesAllAtOnce ==
  streak.n > 0 =>
    /\ streak.removed = streak.k
    /\ lastOp.op = "AssertSomeMessage" =>
          /\ lastOp.arg = streak.msg
          /\ lastOp.ret = (IF streak.n = 1 THEN streak.k ELSE 0)
          /\ lastOp.fatal = (streak.n > 1 \/ streak.k = 0)

\* the second call in a row, the first having removed two events
C6_Witness ==
  /\ streak.n = 2 /\ streak.k = 2 /\ streak.removed = 2
  /\ lastOp.op = "AssertSomeMessage" /\ lastOp.ret = 0 /\ lastOp.fatal

\* what LogMessage.Print writes for an event given with its attributes
Printed(e) ==
  [message |-> e.Message, level |-> e.Level,
   attributes |-> {<<key, e.Attrs[key].kind, e.Attrs[key].v>> : key \in DOMAIN e.Attrs},
   stacktrace |-> e.Stacktrace]

\* C7: AssertEmpty, called or deferred, on any handler, leaves the buffer as
\* it was; with an empty buffer it neither fails the test nor prints; with a
\* non-empty buffer and no panic under way it fails the test; whenever it fails
\* the test it has printed every event of the buffer.
C7_AssertEmpty ==
  lastOp.op = "AssertEmpty" =>
    /\ BufView = lastOp.pre
    /\ lastOp.pre = <<>> => ~lastOp.fatal /\ lastOp.dump = <<>>
    /\ (lastOp.pre # <<>> /\ ~lastOp.panicking) => lastOp.fatal
    /\ lastOp.fatal =>
          /\ lastOp.dump = [i \in 1..Len(lastOp.pre) |-> Printed(lastOp.pre[i])]
          /\ fatals[Len(fatals)][2] = Len(lastOp.pre)

\* AssertEmpty, called on a derived handler while two events are buffered,
\* fails the test and prints both
C7_Witness ==
  /\ lastOp.op = "AssertEmpty" /\ lastOp.h = 2
  /\ ~lastOp.panicking
  /\ Len(lastOp.pre) = 2 /\ BufView = lastOp.pre
  /\ lastOp.fatal /\ Len(lastOp.dump) = 2

\* C8: a deferred AssertEmpty that runs while the test is panicking and finds
\* the buffer non-empty does not call Fatalf, and the panic goes on with its value.
C8_PanicNotMasked ==
  (lastOp.op = "AssertEmpty" /\ lastOp.arg = "deferred"
     /\ lastOp.panicking /\ lastOp.pre # <<>>) =>
    /\ ~lastOp.fatal
    /\ testState = "panicked"
    /\ panicVal = "boom"

\* C9: Unasserted leaves the buffer as it was, returns its events in order,
\* and returns the same again when called again with nothing in between; it
\* never fails the test.
C9_UnassertedIdempotent ==
  lastOp.op = "Unasserted" =>
    /\ BufView = lastOp.pre
    /\ lastOp.ret = BufView
    /\ View(msgs) = BufView
    /\ lastOp.arg.again => lastOp.ret = lastOp.arg.prev
    /\ ~lastOp.fatal /\ testState = "running"

\* the second Unasserted in a row, with two events buffered
C9_Witness ==
  /\ lastOp.op = "Unasserted" /\ lastOp.arg.again
  /\ Len(lastOp.ret) = 2 /\ Len(Buffer) = 2

\* C10: a change the test makes to an event Unasserted returned, to a field or
\* to its attribute map, changes no buffered event; the events returned have
\* maps of their own.
C10_ReturnedIsACopy ==
  /\ lastOp.op = "ChangeReturned" => BufView = lastOp.pre
  /\ \A i \in 1..Len(msgs), j \in 1..Len(Buffer) : msgs[i].Attrs # Buffer[j].Attrs

\* the test deleted an attribute of a returned event, which the buffered
\* event still has
C10_Witness ==
  /\ lastOp.op = "ChangeReturned" /\ lastOp.arg[2] = "delete"
  /\ Len(Buffer) = Len(msgs) /\ Len(Buffer) >= 1
  /\ DOMAIN maps[msgs[lastOp.arg[1]].Attrs] # DOMAIN maps[Buffer[lastOp.arg[1]].Attrs]

\* C11: Reset on any handler leaves the root's buffer empty and does not touch
\* the test; from an empty buffer every step other than Handle leaves the
\* buffer empty, and an AssertEmpty among them does not fail the test.
C11_Reset ==
  /\ [](lastOp.op = "Reset" => Buffer = <<>> /\ ~lastOp.fatal)
  /\ [][lastOp'.op = "Reset" =>
           fatals' = fatals /\ stderr' = stderr /\ testState' = testState]_vars
  /\ [][(Buffer = <<>> /\ lastOp'.op # "Handle") =>
           (Buffer' = <<>> /\ (lastOp'.op = "AssertEmpty" =>
                                 ~lastOp'.fatal /\ testState' = "running"))]_vars

\* Reset, called on a derived handler, emptied a buffer of two events
C11_Witness ==
  /\ lastOp.op = "Reset" /\ lastOp.h = 2
  /\ Len(lastOp.pre) = 2
  /\ Buffer = <<>>

----------------------------------------------------------------------------
(* Claims about matching                                                   *)

\* C12: Matches is true exactly when the messages are equal, the level is
\* LevelDontCare or equal, every key of the match is a key of the event whose
\* value the matcher accepts, and, with AllAttrsMatch, the event has as many
\* attributes as the match has matchers; then the key sets are equal; an
\* empty Message matches an empty message only.
C12_Matches ==
  lastOp.op = "Matches" =>
    LET lmm == lastOp.arg.lmm
        e == lastOp.arg.lm
        accepted == \A key \in DOMAIN lmm.Attrs :
                      key \in DOMAIN e.Attrs /\ matchAttr(lmm.Attrs[key], e.Attrs[key]) = Nil
    IN /\ lastOp.ret =
            (/\ lmm.Message = e.Message
             /\ lmm.Level = LevelDontCare \/ lmm.Level = e.Level
             /\ accepted
             /\ lmm.AllAttrsMatch =>
                  Cardinality(DOMAIN lmm.Attrs) = Cardinality(DOMAIN e.Attrs))
       /\ (lastOp.ret /\ lmm.AllAttrsMatch) => DOMAIN lmm.Attrs = DOMAIN e.Attrs
       /\ (lastOp.ret /\ lmm.Message = "") => e.Message = ""
       /\ (~lmm.AllAttrsMatch /\ lmm.Message = e.Message /\ accepted
             /\ lmm.Level \in {LevelDontCare, e.Level}) => lastOp.ret

\* a match with one matcher and no AllAttrsMatch accepts an event of two
\* attributes
C12_Witness ==
  /\ lastOp.op = "Matches" /\ lastOp.ret
  /\ ~lastOp.arg.lmm.AllAttrsMatch
  /\ Cardinality(DOMAIN lastOp.arg.lmm.Attrs) = 1
  /\ Cardinality(DOMAIN lastOp.arg.lm.Attrs) = 2

\* the shapes of matcher that matchAttr takes for a stored value
Numeric == {"Float64", "Int64", "Uint64"}
AcceptedShapes(val) ==
  {"func(slog.Value) bool", NativeFunc(val), NativeType(val)}
    \cup (IF val.kind \in Numeric THEN {"int"} ELSE {})
WrongShape(matcher, val) ==
  /\ matcher.type # "LogValuer"
  /\ IF val.kind = "Any" THEN matcher.type = "nil"
     ELSE matcher.type \notin AcceptedShapes(val)

\* C13: a matcher of none of the shapes accepted for the kind of the stored
\* value gives the invalid-type error, which is neither nil nor errNoMatch;
\* a LogMessageMatch holding such a matcher for an attribute of the event
\* does not match it; AssertPrecise with a LogMessageMatch holding such a
\* matcher for every buffered event removes nothing and fails the test.
C13_InvalidMatcherType ==
  /\ (lastOp.op = "matchAttr" /\ WrongShape(lastOp.arg.matcher, Resolve(lastOp.arg.val))) =>
        lastOp.ret = errInvalidType /\ errInvalidType \notin {Nil, errNoMatch}
  /\ (lastOp.op = "matchAttr" /\ lastOp.ret = errInvalidType) =>
        WrongShape(lastOp.arg.matcher, Resolve(lastOp.arg.val))
  /\ (lastOp.op = "Matches"
        /\ \E key \in DOMAIN lastOp.arg.lmm.Attrs \cap DOMAIN lastOp.arg.lm.Attrs :
              WrongShape(lastOp.arg.lmm.Attrs[key], lastOp.arg.lm.Attrs[key])) =>
        ~lastOp.ret
  /\ (lastOp.op = "AssertPrecise"
        /\ \E key \in DOMAIN lastOp.arg.Attrs : \A i \in 1..Len(lastOp.pre) :
              \/ key \notin DOMAIN lastOp.pre[i].Attrs
              \/ WrongShape(lastOp.arg.Attrs[key], lastOp.pre[i].Attrs[key])) =>
        BufView = lastOp.pre /\ lastOp.ret = 0 /\ lastOp.fatal /\ testState = "goexit"

\* AssertPrecise with a slice of int for a string attribute: the event has the
\* message, the level and the key of the match and stays in the buffer
C13_Witness ==
  /\ lastOp.op = "AssertPrecise" /\ lastOp.fatal
  /\ Len(lastOp.pre) = 1 /\ BufView = lastOp.pre
  /\ lastOp.arg.Message = lastOp.pre[1].Message
  /\ lastOp.arg.Level = LevelDontCare
  /\ DOMAIN lastOp.arg.Attrs = {Key_key}
  /\ Key_key \in DOMAIN lastOp.pre[1].Attrs
  /\ lastOp.arg.Attrs[Key_key].type = "[]int"

\* the two values are equal as the claim has it for their kind: the same
\* instant for times, IEEE equality for floats
SameNative(kind, a, b) ==
  CASE kind = "Time" -> a.instant = b.instant
    [] kind = "Float64" -> a.base # "NaN" /\ a = b
    [] OTHER -> a = b

\* C14: on a stored value of each of the eight kinds, a predicate on
\* slog.Value matches exactly when it is true of the value, a predicate on the
\* native type exactly when it is true of the native value, a literal of the
\* native type exactly when it equals the native value (for kind any: a
\* literal of any type, exactly when type and contents are equal and it is no
\* function); otherwise the result is errNoMatch.
C14_MatcherShapes ==
  (lastOp.op = "matchAttr" /\ lastOp.arg.matcher.type # "LogValuer") =>
    LET matcher == lastOp.arg.matcher
        val == Resolve(lastOp.arg.val)
    IN /\ matcher.type = "func(slog.Value) bool" =>
            lastOp.ret = (IF \E a \in matcher.v : a.kind = val.kind /\ a.v = val.v
                          THEN Nil ELSE errNoMatch)
       /\ matcher.type = NativeFunc(val) =>
            lastOp.ret = (IF val.v \in matcher.v THEN Nil ELSE errNoMatch)
       /\ (val.kind # "Any" /\ matcher.type = NativeType(val)) =>
            lastOp.ret = (IF SameNative(val.kind, matcher.v, val.v) THEN Nil ELSE errNoMatch)
       /\ (val.kind = "Any" /\ matcher.type \notin {"func(slog.Value) bool", "func(any) bool", "nil"}) =>
            lastOp.ret = (IF matcher.type = val.v.type /\ matcher.type \notin FuncTypes
                             /\ matcher.v = val.v.v
                          THEN Nil ELSE errNoMatch)

\* a time.Time literal of the same instant in another location matches
C14_Witness ==
  /\ lastOp.op = "matchAttr" /\ lastOp.ret = Nil
  /\ lastOp.arg.matcher.type = "time.Time" /\ lastOp.arg.val.kind = "Time"
  /\ lastOp.arg.matcher.v.instant = lastOp.arg.val.v.instant
  /\ lastOp.arg.matcher.v.loc # lastOp.arg.val.v.loc

\* the numbers are equal as numbers
MathEqual(a, b) == a.base # "NaN" /\ b.base # "NaN" /\ a = b

\* C15: an int matcher matches a stored int64, uint64 or float64 exactly when
\* the two numbers are equal; a negative int matches no uint64.
C15_IntMatcher ==
  (lastOp.op = "matchAttr" /\ lastOp.arg.matcher.type = "int"
     /\ lastOp.arg.val.kind \in Numeric) =>
    /\ (lastOp.ret = Nil) = MathEqual(lastOp.arg.matcher.v, lastOp.arg.val.v)
    /\ (lastOp.ret # Nil) = (lastOp.ret = errNoMatch)

----------------------------------------------------------------------------
(* Claims about the flattened key                                          *)

\* C17: encgroups is injective: an input that encodes to what the call
\* returned has the group path and the key of the call.
C17_Injective ==
  lastOp.op = "encgroups" =>
    \A x \in EncInputs :
      EncTable[x] = lastOp.ret =>
        (x.group = lastOp.arg.group /\ x.key = lastOp.arg.key)

\* the key a.b at top level: the key b in the group a encodes to another
\* string
C17_Witness ==
  /\ lastOp.op = "encgroups"
  /\ lastOp.arg.group = <<>> /\ lastOp.arg.key = <<"a", ".", "a">>
  /\ lastOp.ret = <<"a", "\\", ".", "a">>
  /\ EncTable[[group |-> << <<"a">> >>, key |-> <<"a">>]] = <<"a", ".", "a">>

\* a segment as it is to be written: each backslash doubled, each dot after
\* a backslash
RECURSIVE Escaped(_)
Escaped(s) ==
  IF s = <<>> THEN <<>>
  ELSE (CASE Head(s) = "\\" -> <<"\\", "\\">>
          [] Head(s) = "." -> <<"\\", ".">>
          [] OTHER -> <<Head(s)>>) \o Escaped(Tail(s))

\* the segments of a path, written and joined by dots
RECURSIVE Dotted(_)
Dotted(path) ==
  IF Len(path) = 1 THEN Escaped(path[1])
  ELSE Escaped(Head(path)) \o <<".">> \o Dotted(Tail(path))

\* the leaves of an attribute met under a path: each with the names of the
\* groups above it and its own key, and its resolved value
RECURSIVE PathLeaves(_, _), PathLeavesEach(_, _)
PathLeaves(path, attr) ==
  LET val == Resolve(attr.Value) IN
  IF val.kind = "Group"
  THEN PathLeavesEach(path \o <<attr.Key>>, val.v)
  ELSE << [path |-> path \o <<attr.Key>>, value |-> val] >>
PathLeavesEach(path, attrs) ==
  IF attrs = <<>> THEN <<>>
  ELSE PathLeaves(path, Head(attrs)) \o PathLeavesEach(path, Tail(attrs))

\* the leaves of the declarations on a handler's chain
RECURSIVE DeclaredPathLeaves(_)
DeclaredPathLeaves(ds) ==
  IF ds = <<>> THEN <<>>
  ELSE PathLeaves(Head(ds).group, Head(ds).attr) \o DeclaredPathLeaves(Tail(ds))

PathsOf(leaves) == {Dotted(leaves[i].path) : i \in 1..Len(leaves)}

\* C18: an attribute passed at the log call is stored under the handler's
\* group path, then the names of the groups around it at the call, then its
\* key, each segment escaped, the segments joined by dots; it carries the
\* attribute's value unless a later attribute of the call or an attribute of
\* the handler has the same key.
C18_PerCallKey ==
  lastOp.op = "Handle" =>
    LET m == maps[LastEvent.Attrs]
        leaves == PathLeavesEach(handlers[lastOp.h].currentGroup, lastOp.arg.Attrs)
        declared == PathsOf(DeclaredPathLeaves(decl[lastOp.h]))
    IN \A i \in 1..Len(leaves) :
         LET key == Dotted(leaves[i].path) IN
         /\ key \in DOMAIN m
         /\ (key \notin declared
               /\ \A j \in (i + 1)..Len(leaves) : Dotted(leaves[j].path) # key)
              => m[key] = leaves[i].value

\* url logged through the handler of the group request is request.url
C18_Witness ==
  /\ lastOp.op = "Handle"
  /\ handlers[lastOp.h].currentGroup = <<Name_request>>
  /\ lastOp.arg.Attrs = <<Attr(Key_url, StringValue("u1"))>>
  /\ maps[LastEvent.Attrs] = (Name_request \o <<".">> \o Key_url) :> StringValue("u1")

\* C19: an attribute that is a group, or resolves to one, is stored as one
\* entry per leaf of the group, keyed with the attribute's key as one more
\* segment, at top level and inside a group alike: no stored value is a
\* group or a value still to resolve, every leaf that came through a group
\* has its entry, and nothing but the leaves is stored.
C19_GroupsFlattened ==
  lastOp.op = "Handle" =>
    LET m == maps[LastEvent.Attrs]
        cur == handlers[lastOp.h].currentGroup
        leaves == PathLeavesEach(cur, lastOp.arg.Attrs)
        declared == PathsOf(DeclaredPathLeaves(decl[lastOp.h]))
    IN /\ \A key \in DOMAIN m : m[key].kind \notin {"Group", "LogValuer"}
       /\ \A i \in 1..Len(leaves) :
            Len(leaves[i].path) > Len(cur) + 1 =>
              LET key == Dotted(leaves[i].path) IN
              /\ key \in DOMAIN m
              /\ (key \notin declared
                    /\ \A j \in (i + 1)..Len(leaves) : Dotted(leaves[j].path) # key)
                   => m[key] = leaves[i].value
       /\ DOMAIN m = PathsOf(leaves) \cup declared

\* the group request holding k, which resolves to a group of a and \, and
\* url: the entries request.k.a, request.k.\\ and request.url
C19_Witness ==
  /\ lastOp.op = "Handle" /\ lastOp.h = 1
  /\ lastOp.arg.Attrs = KeyAttrLists[7]
  /\ maps[LastEvent.Attrs] =
       ((Name_request \o <<".", "k", ".", "a">>) :> StringValue("a"))
         @@ ((Name_request \o <<".", "k", ".", "\\", "\\">>) :> StringValue("b"))
         @@ ((Name_request \o <<".">> \o Key_url) :> StringValue("u4"))

----------------------------------------------------------------------------
(* Claims about levels                                                     *)

\* C20: Enabled(level), of the root or of a derived handler, is true exactly
\* when level is at least the level the root was built with; and no event
\* logged through a Logger on any of the handlers is in the buffer with a
\* level below it.
C20_Enabled ==
  /\ lastOp.op = "Enabled" => (lastOp.ret = (lastOp.arg >= handlers[1].leveler))
  /\ \A i \in 1..Len(Buffer) : Buffer[i].Level >= handlers[1].leveler

\* a handler derived from a root at Warn: the level just below Warn was
\* logged through it and is not in the buffer, Warn was logged and is
C20_Witness ==
  /\ handlers[1].leveler = LevelWarn
  /\ lastOp.op = "Log" /\ lastOp.h > 1 /\ lastOp.arg = LevelWarn - 1
  /\ Len(Buffer) = 1 /\ Buffer[1].Level = LevelWarn

\* C39: no event in the buffer has the level LevelDontCare, whatever the
\* level of the root and whatever records Handle was called with.
C39_SentinelNeverStored ==
  \A i \in 1..Len(Buffer) : Buffer[i].Level # LevelDontCare

----------------------------------------------------------------------------
(* Claims about the wrapped handler                                        *)

\* the attributes a chain of WithGroup and WithAttrs calls declared, each
\* with the groups open at its declaration, and the groups open at the end
RECURSIVE Declared(_, _)
Declared(goas, open) ==
  IF goas = <<>> THEN [attrs |-> <<>>, groups |-> open]
  ELSE LET goa == Head(goas)
           here == [i \in 1..Len(goa.attrs) |-> [group |-> open, attr |-> goa.attrs[i]]]
           rest == Declared(Tail(goas),
                            IF goa.attrs = <<>> THEN Append(open, goa.group) ELSE open)
       IN [attrs |-> here \o rest.attrs, groups |-> rest.groups]

\* C21: with a wrapped handler configured, every handler of the tree holds
\* a wrapped handler made by the same WithGroup and WithAttrs calls as
\* itself (the same attributes under the same groups, the same groups open),
\* and every event handled has been handed to the wrapped handler of the
\* handler it went through, as the record it came as.
C21_Forwarded ==
  handlers[1].wrapped.set =>
    /\ \A h \in 1..Len(handlers) :
         /\ handlers[h].wrapped.set
         /\ Declared(handlers[h].wrapped.goas, <<>>) =
              [attrs |-> decl[h], groups |-> handlers[h].currentGroup]
    /\ Len(sink) = clock
    /\ lastOp.op = "Handle" =>
         sink[Len(sink)] = [goas |-> handlers[lastOp.h].wrapped.goas,
                            record |-> lastOp.arg]

\* WithGroup(g), then an event with the attribute t: the wrapped handler
\* that WithGroup(g) made is handed the record
C21_Witness ==
  /\ lastOp.op = "Handle"
  /\ handlers[lastOp.h].currentGroup = << <<"g">> >>
  /\ lastOp.arg.Attrs = <<Attr(Key_t, StringValue("v5"))>>
  /\ sink = << [goas |-> << [attrs |-> <<>>, group |-> <<"g">>] >>,
                record |-> lastOp.arg] >>

\* C38: when Handle calls the wrapped handler the event is in the buffer of
\* the root already, as its last entry; and when Handle has returned, with
\* nil or with the error of the wrapped handler, the buffer is the one before
\* the call with that event appended, the wrapped handler has been handed the
\* record, and what Handle returned is what the wrapped handler returned.
C38_AppendedBeforeForwarded ==
  lastOp.op = "Handle" =>
    /\ Len(Buffer) = Len(lastOp.pre) + 1
    /\ \A i \in 1..Len(lastOp.pre) : BufView[i] = lastOp.pre[i]
    /\ LastEvent.Message = lastOp.arg.Message
    /\ LastEvent.Level = lastOp.arg.Level
    /\ LastEvent.Time = lastOp.arg.Time
    /\ lastOp.atForward = Times(Buffer)
    /\ lastOp.ret \in wrapped_Handle(lastOp.h)
    /\ handlers[lastOp.h].wrapped.set =>
          sink[Len(sink)] = [goas |-> handlers[lastOp.h].wrapped.goas,
                             record |-> lastOp.arg]

\* the wrapped handler of a derived handler returned an error for an event
\* with an attribute, and the event is the one in the buffer
C38_Witness ==
  /\ lastOp.op = "Handle" /\ lastOp.ret = WrappedError /\ lastOp.h > 1
  /\ lastOp.arg.Attrs # <<>>
  /\ Len(Buffer) = 1 /\ LastEvent.Time = lastOp.arg.Time
  /\ Len(sink) = 1

----------------------------------------------------------------------------
(* Claims about duplicate detection                                        *)

\* the leaves of the attributes i and j of a call share a flattened key
Clash(group, attrs, i, j) ==
  KeysOf(Leaves(group, attrs[i])) \cap KeysOf(Leaves(group, attrs[j])) # {}

\* C22: WithAttrs of a handler that detects duplicates aborts exactly when
\* an attribute of the call has a flattened key declared on the handler's
\* chain or shared with another attribute of the call; a handler that does
\* not detect them never aborts; and a call that aborts changes neither the
\* buffer nor any handler.
C22_DetectDupes ==
  /\ [](lastOp.op = "WithAttrs" =>
         LET h == lastOp.h
             group == handlers[h].currentGroup
             attrs == lastOp.arg
             dupe == \/ KeysOf(LeavesEach(group, attrs)) \cap KeysOf(DeclaredLeaves(decl[h])) # {}
                     \/ \E i, j \in 1..Len(attrs) : i < j /\ Clash(group, attrs, i, j)
         IN (lastOp.ret = 0) = (handlers[h].detectDupes /\ dupe))
  /\ [][(lastOp'.op = "WithAttrs" /\ lastOp'.ret = 0) =>
           UNCHANGED <<handlers, nodes, maps, msgs, clock, testState, fatals, sink, pc, mutex, local, conc, defaultLogger, cleanup, nulls, evals>>]_vars

\* With(t) and, on the handler it made, With(t) again: the second call aborts
C22_Witness ==
  /\ lastOp.op = "WithAttrs" /\ lastOp.ret = 0 /\ lastOp.h = 2
  /\ Len(handlers) = 2
  /\ decl[2] = << [group |-> <<>>, attr |-> Attr(Key_t, StringValue("v1"))] >>
  /\ lastOp.arg = <<Attr(Key_t, StringValue("v1"))>>

----------------------------------------------------------------------------
(* Claims about Assert                                                     *)

AssertFamily == {"AssertSomeMessage", "AssertMessage", "AssertPrecise", "AssertSomePrecise"}

\* whether the criterion of the latest assertion accepts event e
Criterion(e) ==
  IF lastOp.op \in {"AssertMessage", "AssertSomeMessage"}
  THEN e.Message = lastOp.arg
  ELSE ViewMatches(lastOp.arg, e)

\* what the function handed to Assert returned for the i-th event of the
\* buffer: the criterion, or for the stop-at-first assertions the criterion
\* until it has held once
Returned(i) ==
  IF lastOp.op \in {"AssertMessage", "AssertPrecise"}
  THEN Criterion(lastOp.pre[i]) /\ \A j \in 1..(i - 1) : ~Criterion(lastOp.pre[j])
  ELSE Criterion(lastOp.pre[i])

\* the events of the buffer before the latest assertion for which the
\* function returned false, in their order
Kept ==
  LET F[i \in 0..Len(lastOp.pre)] ==
        IF i = 0 THEN <<>>
        ELSE IF Returned(i) THEN F[i - 1] ELSE Append(F[i - 1], lastOp.pre[i])
  IN F[Len(lastOp.pre)]

\* C27: after Assert(f) the buffer is the events for which f returned false,
\* in their order and as they were, and the count is the number of events for
\* which f returned true, so that old length = new length + count.
C27_StablePartition ==
  lastOp.op \in AssertFamily =>
    /\ BufView = Kept
    /\ lastOp.ret = Cardinality({i \in 1..Len(lastOp.pre) : Returned(i)})
    /\ Len(lastOp.pre) = Len(BufView) + lastOp.ret

\* of three events the function returned true for the second only, and the
\* first and the third are left in that order
C27_Witness ==
  /\ lastOp.op = "AssertSomePrecise"
  /\ Len(lastOp.pre) = 3
  /\ ~Returned(1) /\ Returned(2) /\ ~Returned(3)
  /\ BufView = << lastOp.pre[1], lastOp.pre[3] >>
  /\ lastOp.pre[1] # lastOp.pre[3]

\* C28: an assertion whose criterion accepts no event of the buffer fails the
\* test and leaves the buffer as it was.
C28_NoMatchKeepsBuffer ==
  (lastOp.op \in AssertFamily /\ \A i \in 1..Len(lastOp.pre) : ~Criterion(lastOp.pre[i])) =>
    /\ lastOp.fatal
    /\ testState = "goexit"
    /\ Len(fatals) = 1
    /\ BufView = lastOp.pre

\* AssertPrecise on a buffer of two events, neither of which matches
C28_Witness ==
  /\ lastOp.op = "AssertPrecise"
  /\ Len(lastOp.pre) = 2
  /\ lastOp.pre[1] # lastOp.pre[2]
  /\ \A i \in 1..2 : ~Criterion(lastOp.pre[i])
  /\ lastOp.fatal

\* C30: AssertMessage and AssertPrecise evaluate their criterion on the
\* events of the buffer in order up to the first one it accepts and on no
\* later event, and the later events are left in the buffer as they were.
C30_StopsAtFirstMatch ==
  lastOp.op \in {"AssertMessage", "AssertPrecise"} =>
    LET n == Len(lastOp.pre)
        matching == {i \in 1..n : Criterion(lastOp.pre[i])}
        first == IF matching = {} THEN n
                 ELSE CHOOSE i \in matching : \A j \in matching : i <= j
    IN /\ evals = [i \in 1..first |-> lastOp.pre[i].Time]
       /\ SubSeq(BufView, Len(BufView) - (n - first) + 1, Len(BufView))
            = SubSeq(lastOp.pre, first + 1, n)

\* the first of three events matches and so does the third: the criterion was
\* evaluated on the first only, and the second and the third are left
C30_Witness ==
  /\ lastOp.op \in {"AssertMessage", "AssertPrecise"}
  /\ Len(lastOp.pre) = 3
  /\ Criterion(lastOp.pre[1]) /\ Criterion(lastOp.pre[3])
  /\ evals = << lastOp.pre[1].Time >>
  /\ BufView = << lastOp.pre[2], lastOp.pre[3] >>

----------------------------------------------------------------------------
(* Claims about goroutines                                                 *)

\* C23: every read and every write of the root's buffer is made by a
\* goroutine that holds the root's mutex.
C23_BufferUnderLock == conc.access.of = 1 => conc.access.held

\* no goroutine is inside a call
Quiescent == mutex = "free" /\ \A g \in Goroutines : pc[g] \in {"idle", "exited"}

\* C24: the buffer holds the events of the Handle calls that locked the
\* mutex, in the order in which they locked it, each once, without those an
\* assertion or Reset took out; the events of one goroutine are in the order
\* it logged them.
C24_LockOrder ==
  LET ids == Ids(handlers[1].logMessages)
  IN /\ ids = SelectSeq(conc.acquired,
                        LAMBDA id : id \notin conc.removed \cup conc.discarded)
     /\ \A p, q \in 1..Len(ids) :
          p < q /\ conc.caller[ids[p]] = conc.caller[ids[q]] => ids[p] < ids[q]

\* two goroutines logged, and the one that logged second locked first
C24_Witness ==
  /\ Ids(handlers[1].logMessages) = <<2, 1>>
  /\ conc.caller[1] # conc.caller[2]

\* C29: an event is counted by at most one assertion, and when no goroutine
\* is inside a call the Handle calls that returned are as many as the events
\* in the buffer, those the assertions counted and those Reset discarded.
C29_Conservation ==
  /\ conc.removed \cap conc.discarded = {}
  /\ Quiescent =>
       /\ conc.counted = Cardinality(conc.removed)
       /\ conc.completed = Len(handlers[1].logMessages) + conc.counted
                             + Cardinality(conc.discarded)

\* two events were recorded, an assertion counted one and the other is left
C29_Witness ==
  /\ Quiescent
  /\ conc.completed = 2
  /\ conc.counted = 1
  /\ Len(handlers[1].logMessages) = 1

----------------------------------------------------------------------------
(* Claims about NewDefault                                                 *)

\* C25: NewDefault makes the handler's logger the default, and when the
\* function it gave to t.Cleanup has run the default is the logger that was
\* the default before, however the test ended and whether or not the
\* AssertEmpty of the cleanup failed.
C25_DefaultRestored ==
  /\ lastOp.op = "NewDefault" => defaultLogger = 1
  /\ lastOp.op = "Cleanup" => defaultLogger = OrigLogger

----------------------------------------------------------------------------
(* Claims about the null handler                                           *)

\* C26: the null handler says no level is enabled, Handle returns no error,
\* WithAttrs and WithGroup return the null handler, a log call never reaches
\* Handle, and whatever is called on a NullLogger nothing is recorded,
\* printed or failed.
C26_NullHandler ==
  /\ \A i \in 1..Len(nulls) : nulls[i] = NullHandler
  /\ lastOp.op = "null.Enabled" => lastOp.ret = FALSE
  /\ lastOp.op = "null.Handle" => lastOp.ret = Nil
  /\ lastOp.op = "null.Log" => lastOp.ret = <<>>
  /\ handlers[1].logMessages = <<>>
  /\ stderr = <<>>
  /\ fatals = <<>>
  /\ testState = "running"
  /\ sink = <<>>

\* l.With("x", "y").WithGroup("nope").Debug("no")
C26_Witness ==
  /\ Len(nulls) = 3
  /\ lastOp.op = "null.Log"
  /\ lastOp.h = 3
  /\ lastOp.arg = LevelDebug

----------------------------------------------------------------------------
(* Claims about the attribute tree                                         *)

\* the nodes of the tree at address ga, each with the names of the groups
\* that lead to it
RECURSIVE NodesUnder(_, _, _)
NodesUnder(heap, ga, path) ==
  {[path |-> path, id |-> ga]} \cup
  UNION {NodesUnder(heap, heap[ga].groups[g], path \o <<g>>) : g \in DOMAIN heap[ga].groups}

NodePaths(h) == {n.path : n \in NodesUnder(nodes, handlers[h].attrs, <<>>)}
IsPrefix(p, q) == Len(p) <= Len(q) /\ p = SubSeq(q, 1, Len(p))

\* C35: in the attribute tree of every handler each node is reached by a
\* prefix of the handler's group path, no node has two child groups, and the
\* tree of the handler WithGroup returns has the nodes of its receiver's.
C35_TreeIsChain ==
  /\ \A h \in 1..Len(handlers) :
        /\ \A p \in NodePaths(h) : IsPrefix(p, handlers[h].currentGroup)
        /\ \A n \in NodesUnder(nodes, handlers[h].attrs, <<>>) :
              Cardinality(DOMAIN nodes[n.id].groups) <= 1
  /\ lastOp.op = "WithGroup" =>
        TreeOf(nodes, handlers[lastOp.ret].attrs) = TreeOf(nodes, handlers[lastOp.h].attrs)

\* WithGroup and then WithAttrs: the tree has a node for the group, and the
\* handler WithGroup returned has none
C35_Witness ==
  /\ lastOp.op = "WithAttrs"
  /\ Len(handlers[lastOp.ret].currentGroup) = 1
  /\ NodePaths(lastOp.ret) = {<<>>, handlers[lastOp.ret].currentGroup}
  /\ NodePaths(lastOp.h) = {<<>>}

\* the attributes of the node of handler h's tree that path leads to
AttrsAt(h, path) ==
  LET at == {n \in NodesUnder(nodes, handlers[h].attrs, <<>>) : n.path = path}
  IN IF at = {} THEN <<>> ELSE nodes[(CHOOSE n \in at : TRUE).id].attrs

\* declarations by the depth of their group, those of one depth in the order
\* they were made
RECURSIVE ByDepth(_, _)
ByDepth(ds, depth) ==
  IF \A i \in 1..Len(ds) : Len(ds[i].group) < depth THEN <<>>
  ELSE SelectSeq(ds, LAMBDA d : Len(d.group) = depth) \o ByDepth(ds, depth + 1)

\* C40: the tree WithAttrs makes with set has every node of the receiver's
\* tree, the node at the receiver's group path has the attributes it had
\* followed by the new ones, every other node has the attributes it had, and
\* the traversal of a handler's tree hands over a node's attributes in the
\* order they were declared, before those of the group below it.
C40_SetOnlyAdds ==
  /\ (lastOp.op = "WithAttrs" /\ lastOp.ret # 0) =>
        LET target == handlers[lastOp.h].currentGroup IN
        /\ NodePaths(lastOp.h) \subseteq NodePaths(lastOp.ret)
        /\ NodePaths(lastOp.ret) = NodePaths(lastOp.h) \cup
                                     {SubSeq(target, 1, n) : n \in 0..Len(target)}
        /\ \A p \in NodePaths(lastOp.ret) :
              AttrsAt(lastOp.ret, p) =
                AttrsAt(lastOp.h, p) \o (IF p = target THEN lastOp.arg ELSE <<>>)
  /\ \A h \in 1..Len(handlers) :
        runOnCalls(nodes, handlers[h].attrs, <<>>) = ByDepth(decl[h], 0)

\* WithAttrs, WithGroup and WithAttrs again, on a handler whose tree has
\* attributes at the top: the new ones go to the node of the group, the node
\* at the top keeps its own, and the traversal hands over those of the top
\* first
C40_Witness ==
  /\ lastOp.op = "WithAttrs"
  /\ Len(handlers[lastOp.h].currentGroup) = 1
  /\ Len(AttrsAt(lastOp.h, <<>>)) = 3
  /\ AttrsAt(lastOp.ret, <<>>) = AttrsAt(lastOp.h, <<>>)
  /\ AttrsAt(lastOp.ret, handlers[lastOp.h].currentGroup) = lastOp.arg
  /\ Len(runOnCalls(nodes, handlers[lastOp.ret].attrs, <<>>)) = 4
  /\ runOnCalls(nodes, handlers[lastOp.ret].attrs, <<>>)[4].group = << <<"g">> >>

----------------------------------------------------------------------------
(* Claims about colliding keys                                             *)

\* the value of the latest of the leaves that has the key
LatestValue(leaves, key) ==
  leaves[CHOOSE i \in 1..Len(leaves) :
           /\ leaves[i].key = key
           /\ \A j \in (i + 1)..Len(leaves) : leaves[j].key # key].value

\* C34: when an attribute of the log call and an attribute declared on the
\* handler's chain have the same flattened key, the event has that key with
\* the declared value, and Handle reports nothing.
C34_InheritedWins ==
  lastOp.op = "Handle" =>
    LET m == maps[LastEvent.Attrs]
        declared == DeclaredLeaves(decl[lastOp.h])
        perCall == LeavesEach(handlers[lastOp.h].currentGroup, lastOp.arg.Attrs)
    IN /\ \A i \in 1..Len(perCall) :
            perCall[i].key \in KeysOf(declared) =>
              /\ perCall[i].key \in DOMAIN m
              /\ m[perCall[i].key] = LatestValue(declared, perCall[i].key)
       /\ ~lastOp.fatal
       /\ lastOp.ret = Nil
       /\ fatals = <<>>
       /\ testState = "running"

\* With(t = v1) and an event with its own t = v5: the event has t = v1
C34_Witness ==
  /\ lastOp.op = "Handle"
  /\ ~handlers[lastOp.h].detectDupes
  /\ decl[lastOp.h] = << [group |-> <<>>, attr |-> Attr(Key_t, StringValue("v1"))] >>
  /\ handlers[lastOp.h].currentGroup = <<>>
  /\ lastOp.arg.Attrs = <<Attr(Key_t, StringValue("v5"))>>
  /\ maps[LastEvent.Attrs] = (Key_t :> StringValue("v1"))

----------------------------------------------------------------------------
(* Claims about the values of kind any and the kinds stored                *)

\* C37: matchAttr on a stored value of kind any never answers that the
\* matcher is of an invalid type, whatever the matcher, a nil one included.
C37_AnyTakesEveryMatcher ==
  (lastOp.op = "matchAttr" /\ lastOp.arg.val.kind = "Any") => lastOp.ret # errInvalidType
\* C36: every value in the attribute map of a buffered event is resolved and
\* is no group, and matchAttr of any matcher with a value of the event just
\* recorded does not end in the panic for an unknown kind.
C36_StoredKinds ==
  \A i \in 1..Len(Buffer) : \A key \in DOMAIN maps[Buffer[i].Attrs] :
    LET val == maps[Buffer[i].Attrs][key] IN
    /\ val.kind \notin {"Group", "LogValuer"}
    /\ Resolve(val) = val
    /\ (lastOp.op = "Handle" /\ i = Len(Buffer)) =>
          \A j \in 1..Len(MatchMatchers) :
            matchAttr(MatchMatchers[j], val) # "panic: unknown kind in slog"

\* an event logged with a group that holds a LogValuer whose value is a
\* group, next to a string: three strings are stored
C36_Witness ==
  /\ lastOp.op = "Handle"
  /\ lastOp.arg.Attrs = KeyAttrLists[7]
  /\ Cardinality(DOMAIN maps[LastEvent.Attrs]) = 3
  /\ \A key \in DOMAIN maps[LastEvent.Attrs] : maps[LastEvent.Attrs][key].kind = "String"

----------------------------------------------------------------------------
(* Claims about the critical section                                       *)

\* the calls of f that Handle makes for the attributes of its record
PerCallCalls(g) ==
  [i \in 1..Len(local[g].attrs) |->
     [group |-> handlers[local[g].h].currentGroup, attr |-> local[g].attrs[i]]]

\* the calls of f that Handle makes for the attributes of its handler
InheritedCalls(g) == runOnCalls(nodes, handlers[local[g].h].attrs, <<>>)

Scanned(g) == {local[g].scanned[i] : i \in 1..Len(local[g].scanned)}

\* C33: while an Assert is between its loop over the buffer and the
\* replacement of the buffer it holds the mutex, the buffer is the one the
\* loop went through, and no other goroutine is between Lock and Unlock;
\* when it has replaced the buffer, the buffer is the events of the loop
\* that the predicate did not match. An event whose Handle waits for the
\* mutex meanwhile is not in the buffer yet.
C33_PredicateInCriticalSection ==
  \A g \in Goroutines :
    /\ pc[g] = "replace" =>
          /\ mutex = g
          /\ Ids(Buffer) = local[g].scanned
          /\ \A o \in Goroutines \ {g} : pc[o] \notin {"replace", "unlock"}
          /\ \A o \in Goroutines \ {g} :
                pc[o] = "lock" /\ local[o].op = "Handle" =>
                  /\ local[o].id \notin IdSet(Buffer)
                  /\ local[o].id \notin IdSet(local[g].newMessages)
    /\ pc[g] = "unlock" /\ local[g].op \in AssertOps =>
          /\ mutex = g
          /\ Ids(Buffer) = Ids(local[g].newMessages)
          /\ Scanned(g) \ IdSet(Buffer) \subseteq conc.removed
          /\ Cardinality(Scanned(g) \ IdSet(Buffer)) = local[g].count

\* an assertion has matched the event of the buffer and is about to replace
\* the buffer, while the Handle of the other goroutine waits for the mutex
C33_Witness ==
  /\ pc["test"] = "replace" /\ Len(local["test"].scanned) = 1
  /\ local["test"].count = 1
  /\ pc["worker"] = "lock" /\ local["worker"].op = "Handle"

\* goroutine g is inside a call, or in the Fail that follows an assertion
InCall(g) == pc[g] \in {"lock", "replace", "unlock", "Fail"}

\* C32: a goroutine that is inside a call gets out of it, by returning or
\* by the exit that Fatalf makes; and whenever no goroutine is between Lock
\* and Unlock the mutex is free, also when an assertion or AssertEmpty has
\* failed the test and when AssertEmpty ran while the test was panicking.
C32_EveryCallCompletes ==
  /\ [](\A g \in Goroutines : mutex = g <=> pc[g] \in {"replace", "unlock"})
  /\ \A g \in Goroutines : InCall(g) ~> ~InCall(g)

\* the deferred AssertEmpty found one event while the test was panicking and
\* failed the test; the Handle of the other goroutine got the mutex after
\* it and has returned
C32_Witness ==
  /\ panicVal = "boom" /\ pc["test"] = "exited" /\ local["test"].op = "AssertEmpty"
  /\ fatals = << <<"%d unasserted log message(s); see printout above", 1>> >>
  /\ Len(Buffer) = 2
  /\ pc["worker"] = "idle" /\ local["worker"].op = "Handle"
  /\ mutex = "free"

====
